---------------------------- MODULE Spec2Model ----------------------------
(***************************************************************************)
(* Model of the cross-validation gates of outlook_msg_ex (tools/*.py):     *)
(* the oracle adapters, the deviation set builder (baseline_diff), the     *)
(* baseline policy gate, the semantic gate and the warning gate.           *)
(*                                                                         *)
(* Python values are modelled as tagged records (None, str, int), Python   *)
(* dicts as functions whose DOMAIN is the set of keys present, and Python  *)
(* dicts whose iteration order matters as sequences of entries.            *)
(***************************************************************************)
EXTENDS Integers, Sequences, FiniteSets, TLC

VARIABLES
    pc,         \* position of the running tool
    files,      \* args.files after abspath: the requested files, in order
    opts,       \* the other command line options (args)
    policy,     \* the policy loaded from the policy file
    stdout,     \* per oracle process that succeeded: the lines _run returned
    rcs,        \* per spawned oracle process: its exit status (p.returncode)
    parsers,    \* the result sets decoded so far, in insertion order
    diff,       \* the payload of baseline_diff
    failures,   \* the violation / failure list of the gate
    banner,     \* the verdict line printed by the gate ("" while none)
    exit,       \* the exit status of the tool (NoExit while running)
    arg,        \* the arguments of a helper function called on its own
    ret         \* what that call returned

vars == <<pc, files, opts, policy, stdout, rcs, parsers, diff, failures, banner, exit, arg, ret>>

-----------------------------------------------------------------------------
(* Python values *)

NoneV == [t |-> "none", s |-> "", n |-> 0]
StrV(x) == [t |-> "str", s |-> x, n |-> 0]
IntV(k) == [t |-> "int", s |-> "", n |-> k]

\* isinstance(v, int)
IsInt(v) == v.t = "int"

\* (v or 0) for a length value that is an int or None
OrZero(v) == IF v.t = "int" THEN v.n ELSE 0

Abs(k) == IF k < 0 THEN -k ELSE k
Max(a, b) == IF a >= b THEN a ELSE b

\* int(x * p / 100) for x >= 0: the product of an int and the float 0.02,
\* 0.05 or 0.2, truncated.  The doubles nearest to these literals lie above
\* them and the rounding error of the product is far below the distance of
\* x * p / 100 to the next integer, so the truncation is the integer quotient.
IntPct(x, p) == (x * p) \div 100

\* d.get(k): the value under k, None when the key is absent
Get(d, k) == IF k \in DOMAIN d THEN d[k] ELSE NoneV

\* {}: the dict without keys; "not d" holds of it alone
EmptyDict == [k \in {} |-> NoneV]
IsEmpty(d) == DOMAIN d = {}

\* results.get(f, {}) on a result set keyed by file
RowOf(data, f) == IF f \in DOMAIN data THEN data[f] ELSE EmptyDict

\* parsers.get(name, {}) on the insertion-ordered dict of result sets
DataOf(ps, name) ==
    IF \E i \in 1..Len(ps) : ps[i].name = name
    THEN (CHOOSE e \in {ps[i] : i \in 1..Len(ps)} : e.name = name).data
    ELSE EmptyDict

ParserNames(ps) == {ps[i].name : i \in 1..Len(ps)}

NoExit == -1

\* no helper function is called on its own
NoArg == << >>

\* args of a run without --with-msg-viewer
NoOpts == [with_msg_viewer |-> FALSE]

-----------------------------------------------------------------------------
(* msg_diff_harness.py: the deviation set builder *)

\* the fixed field list of baseline_diff
Fields ==
    << "subject", "from", "to", "recipient_count", "attachment_count",
       "first_recipient_email", "body_len", "html_len" >>

\* mutant: first_recipient_email left out of the high-severity set
_severity_EmailNotHigh(field) ==
    IF field \in {"subject", "recipient_count", "attachment_count"} THEN "high"
    ELSE IF field \in {"from", "to"} THEN "medium"
    ELSE IF field \in {"body_len", "html_len"} THEN "medium"
    ELSE "low"

\* mutant: the length fields fall through to low
_severity_LengthLow(field) ==
    IF field \in {"subject", "recipient_count", "attachment_count", "first_recipient_email"}
    THEN "high"
    ELSE IF field \in {"from", "to"} THEN "medium"
    ELSE "low"

_severity(field) ==
    IF field \in {"subject", "recipient_count", "attachment_count", "first_recipient_email"}
    THEN "high"
    ELSE IF field \in {"from", "to"} THEN "medium"
    ELSE IF field \in {"body_len", "html_len"} THEN "medium"
    ELSE "low"

\* tol of the body_len band, max(128, int((bv or 0) * 0.02))
BodyTol(bv) == Max(128, IntPct(OrZero(bv), 2))

\* tol of the html_len band, max(4096, int((bv or 0) * 0.05))
HtmlTol(bv) == Max(4096, IntPct(OrZero(bv), 5))

\* mutant: a difference equal to the tolerance is already an issue
WithinTol_Strict(bv, rv, tol) == IsInt(bv) /\ IsInt(rv) /\ Abs(bv.n - rv.n) < tol

\* isinstance(bv, int) and isinstance(rv, int) and abs(bv - rv) <= tol
WithinTol(bv, rv, tol) == IsInt(bv) /\ IsInt(rv) /\ Abs(bv.n - rv.n) <= tol

\* one pass of the loop over the fields: the issues the field adds
FieldIssues(field, bv, rv) ==
    IF bv = rv THEN << >>
    ELSE IF field = "body_len" /\ WithinTol(bv, rv, BodyTol(bv)) THEN << >>
    ELSE IF field = "html_len" /\ WithinTol(bv, rv, HtmlTol(bv)) THEN << >>
    ELSE << [field |-> field, severity |-> _severity(field), baseline |-> bv, actual |-> rv] >>

\* mutant: the issues are collected from the last field to the first
RECURSIVE CompareFields_Reversed(_, _, _)
CompareFields_Reversed(fields, base, row) ==
    IF fields = << >> THEN << >>
    ELSE CompareFields_Reversed(Tail(fields), base, row)
         \o FieldIssues(Head(fields), Get(base, Head(fields)), Get(row, Head(fields)))

RECURSIVE CompareFields(_, _, _)
CompareFields(fields, base, row) ==
    IF fields = << >> THEN << >>
    ELSE FieldIssues(Head(fields), Get(base, Head(fields)), Get(row, Head(fields)))
         \o CompareFields(Tail(fields), base, row)

\* mutant: a missing candidate record is compared field by field
PairIssues_RowUnchecked(base, row) ==
    IF IsEmpty(base)
    THEN << [field |-> "parser", severity |-> "high", baseline |-> NoneV,
             actual |-> row, note |-> "missing baseline row"] >>
    ELSE CompareFields(Fields, base, row)

\* the issue list of one file and one non-baseline parser
PairIssues(base, row) ==
    IF IsEmpty(base)
    THEN << [field |-> "parser", severity |-> "high", baseline |-> NoneV,
             actual |-> row, note |-> "missing baseline row"] >>
    ELSE IF IsEmpty(row)
    THEN << [field |-> "parser", severity |-> "high", baseline |-> base,
             actual |-> NoneV, note |-> "missing comparator row"] >>
    ELSE CompareFields(Fields, base, row)

\* d[k] = v on an insertion-ordered dict: a new key goes last, a known key
\* keeps its place
RECURSIVE DictPut(_, _, _)
DictPut(d, k, v) ==
    IF d = << >> THEN << [key |-> k, val |-> v] >>
    ELSE IF Head(d).key = k THEN << [key |-> k, val |-> v] >> \o Tail(d)
    ELSE << Head(d) >> \o DictPut(Tail(d), k, v)

DictKeys(d) == {d[i].key : i \in 1..Len(d)}
DictGet(d, k) == (CHOOSE e \in {d[i] : i \in 1..Len(d)} : e.key = k).val

\* file_rows of one file: the loop over parsers.items(), the baseline skipped
RECURSIVE FileRows(_, _, _, _)
FileRows(ps, f, base, baseline) ==
    IF ps = << >> THEN << >>
    ELSE IF Head(ps).name = baseline THEN FileRows(Tail(ps), f, base, baseline)
    ELSE << [key |-> Head(ps).name, val |-> PairIssues(base, RowOf(Head(ps).data, f))] >>
         \o FileRows(Tail(ps), f, base, baseline)

\* out["files"]: the loop over the files
RECURSIVE DiffFiles(_, _, _, _)
DiffFiles(fs, ps, base_data, baseline) ==
    IF fs = << >> THEN << >>
    ELSE DictPut(DiffFiles(SubSeq(fs, 1, Len(fs) - 1), ps, base_data, baseline),
                 fs[Len(fs)],
                 FileRows(ps, fs[Len(fs)], RowOf(base_data, fs[Len(fs)]), baseline))

baseline_diff(fs, ps, baseline) == DiffFiles(fs, ps, DataOf(ps, baseline), baseline)

-----------------------------------------------------------------------------
(* Result records: what the adapters store per file *)

\* the keys of a success record (parse_ruby, parse_elixir, parse_extract_msg)
RowKeys ==
    { "parser", "file", "subject", "from", "to", "cc", "bcc", "message_id",
      "recipient_count", "attachment_count", "first_recipient_email",
      "body_len", "html_len", "body_sha256", "html_sha256",
      "body_preview", "html_preview" }

\* the six fields compared exactly
CatFields ==
    { "subject", "from", "to", "recipient_count", "attachment_count",
      "first_recipient_email" }

\* two sample values per exactly compared field
CatValue(field, v) ==
    CASE field = "subject" -> StrV(IF v = 0 THEN "Hello" ELSE "Bye")
      [] field = "from" -> StrV(IF v = 0 THEN "Ann <ann@x>" ELSE "Bob <bob@x>")
      [] field = "to" -> StrV(IF v = 0 THEN "Cid" ELSE "Dan")
      [] field = "recipient_count" -> IntV(IF v = 0 THEN 1 ELSE 2)
      [] field = "attachment_count" -> IntV(IF v = 0 THEN 0 ELSE 1)
      [] field = "first_recipient_email" -> StrV(IF v = 0 THEN "cid@x" ELSE "dan@x")

\* a success record: cat picks the sample value of each exactly compared
\* field, b and h are body_len and html_len
SuccessRow(parser, file, cat, b, h) ==
    [k \in RowKeys |->
        CASE k = "parser" -> StrV(parser)
          [] k = "file" -> StrV(file)
          [] k \in CatFields -> CatValue(k, cat[k])
          [] k = "body_len" -> IntV(b)
          [] k = "html_len" -> IntV(h)
          [] OTHER -> StrV("")]

\* an error record: {"parser": ..., "file": ..., "error": ...}
ErrorRow(parser, file) ==
    [k \in {"parser", "file", "error"} |->
        CASE k = "parser" -> StrV(parser)
          [] k = "file" -> StrV(file)
          [] OTHER -> StrV("boom")]

\* "error" in r
IsError(r) == "error" \in DOMAIN r

Cat0 == [k \in CatFields |-> 0]
AllCats == [CatFields -> {0, 1}]

-----------------------------------------------------------------------------
(* Inputs of the deviation set builder *)

\* how far around each tolerance edge the sampled length differences reach
Spread == 1

BodyBases == {0, 1000, 6400, 6450, 6499, 10000}
BodyDeltas ==
    {0, 15, 300} \cup ((128 - Spread)..(130 + Spread)) \cup ((199 - Spread)..(201 + Spread))

HtmlBases == {0, 50000, 81920, 81930, 100000}
HtmlDeltas ==
    {0} \cup ((4096 - Spread)..(4097 + Spread)) \cup ((4999 - Spread)..(5001 + Spread))

\* pairs <<baseline length, candidate length>>
LenPairs(bases, deltas) ==
    {p \in UNION {{<<b, b + d>>, <<b, b - d>>} : b \in bases, d \in deltas} : p[2] >= 0}

DiffFile1 == "/m/a.msg"
DiffFile2 == "/m/b.msg"

\* <<ruby-msg record, outlook_msg record>> of the first file, two success
\* records
OkScenarios ==
    {<<SuccessRow("ruby-msg", DiffFile1, Cat0, p[1], 0),
       SuccessRow("outlook_msg", DiffFile1, c, p[2], 0)>> :
        c \in AllCats, p \in {<<1000, 1015>>, <<10000, 9700>>}}
    \cup
    {<<SuccessRow("ruby-msg", DiffFile1, Cat0, p[1], q[1]),
       SuccessRow("outlook_msg", DiffFile1, Cat0, p[2], q[2])>> :
        p \in LenPairs(BodyBases, BodyDeltas), q \in {<<0, 0>>, <<100000, 94999>>}}
    \cup
    {<<SuccessRow("ruby-msg", DiffFile1, Cat0, 1000, q[1]),
       SuccessRow("outlook_msg", DiffFile1, Cat0, 1015, q[2])>> :
        q \in LenPairs(HtmlBases, HtmlDeltas)}

\* a record may also be absent (EmptyDict here) or an error record
EdgeRows(parser, file) ==
    {EmptyDict, ErrorRow(parser, file), SuccessRow(parser, file, Cat0, 1000, 0)}

DiffScenarios ==
    OkScenarios \cup (EdgeRows("ruby-msg", DiffFile1) \X EdgeRows("outlook_msg", DiffFile1))

\* the result set holding the given records; an EmptyDict stands for no row
ResultSet(r1, r2) ==
    [f \in {g \in {DiffFile1, DiffFile2} :
                (g = DiffFile1 /\ ~IsEmpty(r1)) \/ (g = DiffFile2 /\ ~IsEmpty(r2))} |->
        IF f = DiffFile1 THEN r1 ELSE r2]

\* the second file has a default record or none
SecondRows(parser) == {EmptyDict, SuccessRow(parser, DiffFile2, Cat0, 1000, 0)}

\* extract-msg is disabled, or reports an error or a success record
ExtractEntries ==
    {<< >>}
    \cup {<<[name |-> "extract-msg",
             data |-> ResultSet(r, SuccessRow("extract-msg", DiffFile2, Cat0, 1000, 0))]>> :
            r \in {ErrorRow("extract-msg", DiffFile1),
                   SuccessRow("extract-msg", DiffFile1, Cat0, 1000, 0)}}

DiffParsers ==
    {<<[name |-> "ruby-msg", data |-> ResultSet(sc[1], s1)],
       [name |-> "outlook_msg", data |-> ResultSet(sc[2], s2)]>> \o ex :
        sc \in DiffScenarios, s1 \in SecondRows("ruby-msg"),
        s2 \in SecondRows("outlook_msg"), ex \in ExtractEntries}

\* the baseline may name a parser that has no result set
DiffBaselines == {"ruby-msg", "outlook_msg", "msg-viewer"}

DefaultPolicy(baseline) ==
    [baseline_parser |-> baseline, fail_on_severity |-> {"high"}, allow_rules |-> << >>]

InitDiff ==
    /\ pc = "diff"
    /\ files = <<DiffFile1, DiffFile2>>
    /\ opts = NoOpts
    /\ \E b \in DiffBaselines : policy = DefaultPolicy(b)
    /\ parsers \in DiffParsers
    /\ stdout = << >>
    /\ rcs = << >>
    /\ diff = << >>
    /\ failures = << >>
    /\ banner = ""
    /\ exit = NoExit
    /\ arg = NoArg
    /\ ret = NoArg

\* payload = baseline_diff(files, parsers, args.baseline_parser)
Diff ==
    /\ pc = "diff"
    /\ diff' = baseline_diff(files, parsers, policy.baseline_parser)
    /\ pc' = "diffed"
    /\ UNCHANGED <<files, opts, arg, ret, policy, stdout, rcs, parsers, failures, banner, exit>>

NextDiff == Diff

SpecDiff == InitDiff /\ [][NextDiff]_vars

-----------------------------------------------------------------------------
(* Properties of the deviation set builder, checked under SpecDiff *)

\* the record a parser stored for a file is absent: the parser has no result
\* set, or its result set has no row of the file
RecordAbsent(name, f) ==
    \A j \in 1..Len(parsers) : parsers[j].name = name => f \notin DOMAIN parsers[j].data

\* the record a parser stored for a file (only used where it is not absent)
RecordOf(name, f) ==
    (CHOOSE e \in {parsers[j] : j \in 1..Len(parsers)} : e.name = name).data[f]

\* the file/oracle pairs baseline_diff reports on
DiffPairs ==
    {<<files[i], parsers[j].name>> : i \in 1..Len(files), j \in 1..Len(parsers)}
    \ {<<files[i], policy.baseline_parser>> : i \in 1..Len(files)}

\* the issue list the payload holds for a file/oracle pair
IssuesOf(f, p) == DictGet(DictGet(diff, f), p)

Reported(f, p) == f \in DictKeys(diff) /\ p \in DictKeys(DictGet(diff, f))

\* the number of issues of a pair that name the field
CountIssues(f, p, field) ==
    Cardinality({k \in 1..Len(IssuesOf(f, p)) : IssuesOf(f, p)[k].field = field})

RecordLevel(issue) == issue.field = "parser" /\ issue.severity = "high"

\* C3: for every file and every non-baseline oracle, when the baseline record
\* or the candidate record is absent (also when the baseline names no result
\* set at all), the pair has exactly one issue, with field "parser" and
\* severity high, and no field-level issue beside it.
C3_MissingRecordOneIssue ==
    pc = "diffed" =>
        \A pr \in DiffPairs :
            (RecordAbsent(policy.baseline_parser, pr[1]) \/ RecordAbsent(pr[2], pr[1])) =>
                /\ Reported(pr[1], pr[2])
                /\ Len(IssuesOf(pr[1], pr[2])) = 1
                /\ RecordLevel(IssuesOf(pr[1], pr[2])[1])

\* C3 witness: the baseline names a parser without a result set, and a
\* candidate that has a record of the file gets the single record-level issue.
C3_Witness ==
    /\ pc = "diffed"
    /\ policy.baseline_parser \notin ParserNames(parsers)
    /\ ~RecordAbsent("outlook_msg", DiffFile1)
    /\ Len(IssuesOf(DiffFile1, "outlook_msg")) = 1
    /\ RecordLevel(IssuesOf(DiffFile1, "outlook_msg")[1])
    /\ RecordAbsent("ruby-msg", DiffFile2)
    /\ Len(IssuesOf(DiffFile2, "ruby-msg")) = 1

\* C4 (as claimed): whenever the baseline record or the candidate record of a
\* file is an error record, the issue list of the pair is not empty and holds
\* record-level issues of severity high only.
C4_ErrorRecordRecordLevel ==
    pc = "diffed" =>
        \A pr \in DiffPairs :
            (/\ ~RecordAbsent(policy.baseline_parser, pr[1])
             /\ ~RecordAbsent(pr[2], pr[1])
             /\ \/ IsError(RecordOf(policy.baseline_parser, pr[1]))
                \/ IsError(RecordOf(pr[2], pr[1]))) =>
                /\ Len(IssuesOf(pr[1], pr[2])) >= 1
                /\ \A k \in 1..Len(IssuesOf(pr[1], pr[2])) :
                       RecordLevel(IssuesOf(pr[1], pr[2])[k])

\* both records of the pair are success records
BothSuccess(f, p) ==
    /\ ~RecordAbsent(policy.baseline_parser, f)
    /\ ~RecordAbsent(p, f)
    /\ ~IsError(RecordOf(policy.baseline_parser, f))
    /\ ~IsError(RecordOf(p, f))

\* the issue count the band max(floor, pct% of bv) prescribes, without
\* truncation: one iff 100 * |bv - rv| > max(100 * floor, pct * bv)
BandCount(bv, rv, floor, pct) ==
    IF 100 * Abs(bv - rv) > Max(100 * floor, pct * bv) THEN 1 ELSE 0

\* C7: for two success records, body_len gets an issue iff
\* |bv - rv| > max(128, 2% of bv) and html_len iff |bv - rv| > max(4096, 5% of
\* bv), the percentages not truncated; 1000 against 1015 gives no body_len
\* issue, 10000 against 9700 exactly one, of severity medium.
C7_LengthBands ==
    pc = "diffed" =>
        \A pr \in DiffPairs :
            BothSuccess(pr[1], pr[2]) =>
                LET base == RecordOf(policy.baseline_parser, pr[1])
                    row == RecordOf(pr[2], pr[1])
                    bb == base["body_len"].n
                    rb == row["body_len"].n
                    issues == IssuesOf(pr[1], pr[2])
                IN  /\ CountIssues(pr[1], pr[2], "body_len") = BandCount(bb, rb, 128, 2)
                    /\ CountIssues(pr[1], pr[2], "html_len")
                           = BandCount(base["html_len"].n, row["html_len"].n, 4096, 5)
                    /\ (bb = 1000 /\ rb = 1015) => CountIssues(pr[1], pr[2], "body_len") = 0
                    /\ (bb = 10000 /\ rb = 9700) =>
                           /\ CountIssues(pr[1], pr[2], "body_len") = 1
                           /\ \A k \in 1..Len(issues) :
                                  issues[k].field = "body_len" => issues[k].severity = "medium"

\* C7 witness: baseline body_len 10000 against candidate 9700 has been
\* compared and got its one issue.
C7_Witness ==
    /\ pc = "diffed"
    /\ policy.baseline_parser = "ruby-msg"
    /\ BothSuccess(DiffFile1, "outlook_msg")
    /\ RecordOf("ruby-msg", DiffFile1)["body_len"] = IntV(10000)
    /\ RecordOf("outlook_msg", DiffFile1)["body_len"] = IntV(9700)
    /\ CountIssues(DiffFile1, "outlook_msg", "body_len") = 1

HighFields == {"subject", "recipient_count", "attachment_count", "first_recipient_email"}

\* C8: for each high-severity field of two present records, equal values give
\* no issue for the field and unequal values exactly one, of severity high.
C8_HighFieldsExact ==
    pc = "diffed" =>
        \A pr \in DiffPairs :
            (~RecordAbsent(policy.baseline_parser, pr[1]) /\ ~RecordAbsent(pr[2], pr[1])) =>
                LET base == RecordOf(policy.baseline_parser, pr[1])
                    row == RecordOf(pr[2], pr[1])
                    issues == IssuesOf(pr[1], pr[2])
                IN  \A field \in HighFields :
                        /\ CountIssues(pr[1], pr[2], field)
                               = IF Get(base, field) = Get(row, field) THEN 0 ELSE 1
                        /\ \A k \in 1..Len(issues) :
                               issues[k].field = field => issues[k].severity = "high"

\* C8 witness: two success records that differ in subject and agree in
\* recipient_count: one subject issue, no recipient_count issue.
C8_Witness ==
    /\ pc = "diffed"
    /\ policy.baseline_parser = "ruby-msg"
    /\ BothSuccess(DiffFile1, "outlook_msg")
    /\ RecordOf("ruby-msg", DiffFile1)["subject"] # RecordOf("outlook_msg", DiffFile1)["subject"]
    /\ RecordOf("ruby-msg", DiffFile1)["recipient_count"]
           = RecordOf("outlook_msg", DiffFile1)["recipient_count"]
    /\ CountIssues(DiffFile1, "outlook_msg", "subject") = 1
    /\ CountIssues(DiffFile1, "outlook_msg", "recipient_count") = 0

MediumFields == {"from", "to", "body_len", "html_len"}

\* the severity the field of a field-level issue prescribes
SeverityByField(field) ==
    IF field \in HighFields THEN "high"
    ELSE IF field \in MediumFields THEN "medium"
    ELSE "low"

FieldLevel(issue) == issue.field # "parser"

\* C18: every field-level issue of baseline_diff carries the severity its
\* field alone prescribes: high for subject, recipient_count,
\* attachment_count and first_recipient_email, medium for from, to, body_len
\* and html_len; a field outside the two sets gets low.
C18_SeverityByFieldAlone ==
    /\ \A field \in {"date", "cc", "parser_version"} : _severity(field) = "low"
    /\ pc = "diffed" =>
           \A pr \in DiffPairs :
               \A k \in 1..Len(IssuesOf(pr[1], pr[2])) :
                   LET issue == IssuesOf(pr[1], pr[2])[k]
                   IN  FieldLevel(issue) =>
                           /\ issue.field \in HighFields \cup MediumFields
                           /\ issue.severity = SeverityByField(issue.field)

\* C18 witness: one pair with a subject issue, a from issue and a body_len
\* issue (10000 against 9700), of severities high, medium and medium.
C18_Witness ==
    /\ pc = "diffed"
    /\ policy.baseline_parser = "ruby-msg"
    /\ BothSuccess(DiffFile1, "outlook_msg")
    /\ RecordOf("ruby-msg", DiffFile1)["body_len"] = IntV(10000)
    /\ RecordOf("outlook_msg", DiffFile1)["body_len"] = IntV(9700)
    /\ \E i, j, k \in 1..Len(IssuesOf(DiffFile1, "outlook_msg")) :
           LET issues == IssuesOf(DiffFile1, "outlook_msg")
           IN  /\ issues[i].field = "subject" /\ issues[i].severity = "high"
               /\ issues[j].field = "from" /\ issues[j].severity = "medium"
               /\ issues[k].field = "body_len" /\ issues[k].severity = "medium"

\* the place of a field in the fixed field list
FieldIndex(field) == CHOOSE i \in 1..Len(Fields) : Fields[i] = field

BothPresent(f, p) == ~RecordAbsent(policy.baseline_parser, f) /\ ~RecordAbsent(p, f)

\* the two records of one pair agree with the two records of another on
\* every compared field
SameRecords(pr, qr) ==
    \A i \in 1..Len(Fields) :
        /\ Get(RecordOf(policy.baseline_parser, pr[1]), Fields[i])
               = Get(RecordOf(policy.baseline_parser, qr[1]), Fields[i])
        /\ Get(RecordOf(pr[2], pr[1]), Fields[i]) = Get(RecordOf(qr[2], qr[1]), Fields[i])

\* C19: for every pair with both records present the issues name fields of
\* the fixed list in strictly increasing list position (so the order is the
\* order of the list and no field has two issues), and two pairs over the
\* same records get the same issue list.
C19_IssueOrder ==
    pc = "diffed" =>
        \A pr \in DiffPairs :
            BothPresent(pr[1], pr[2]) =>
                LET issues == IssuesOf(pr[1], pr[2])
                IN  /\ \A k \in 1..Len(issues) :
                           \E i \in 1..Len(Fields) : Fields[i] = issues[k].field
                    /\ \A k, l \in 1..Len(issues) :
                           k < l => FieldIndex(issues[k].field) < FieldIndex(issues[l].field)
                    /\ \A field \in {Fields[i] : i \in 1..Len(Fields)} :
                           CountIssues(pr[1], pr[2], field) <= 1
                    /\ \A qr \in DiffPairs :
                           (BothPresent(qr[1], qr[2]) /\ SameRecords(pr, qr)) =>
                               IssuesOf(qr[1], qr[2]) = issues

\* C19 witness: a pair whose issues are those of subject, to,
\* attachment_count and body_len, in this order, while a second pair over
\* other records has no issue.
C19_Witness ==
    /\ pc = "diffed"
    /\ policy.baseline_parser = "ruby-msg"
    /\ BothSuccess(DiffFile1, "outlook_msg")
    /\ BothSuccess(DiffFile2, "outlook_msg")
    /\ LET issues == IssuesOf(DiffFile1, "outlook_msg")
       IN  /\ Len(issues) = 4
           /\ issues[1].field = "subject"
           /\ issues[2].field = "to"
           /\ issues[3].field = "attachment_count"
           /\ issues[4].field = "body_len"
    /\ IssuesOf(DiffFile2, "outlook_msg") = << >>

-----------------------------------------------------------------------------
(* baseline_gate.py: the policy evaluator of the baseline deviation gate *)

RuleKeys == {"parser", "field", "severity"}

\* rule.get(k) is truthy: the key is present and its string is not empty
Constrains(rule, k) == k \in DOMAIN rule /\ rule[k] # ""

\* mutant: the severity constraint of a rule is not looked at
RuleMatches_NoSeverity(rule, issue, parser_name) ==
    /\ ~(Constrains(rule, "parser") /\ rule["parser"] # parser_name)
    /\ ~(Constrains(rule, "field") /\ rule["field"] # issue.field)

\* one pass of the loop of _allowed: none of the three continue statements
\* is taken, so the rule returns True
RuleMatches(rule, issue, parser_name) ==
    /\ ~(Constrains(rule, "parser") /\ rule["parser"] # parser_name)
    /\ ~(Constrains(rule, "field") /\ rule["field"] # issue.field)
    /\ ~(Constrains(rule, "severity") /\ rule["severity"] # issue.severity)

\* mutant: an issue is allowed only when every rule matches it
_allowed_EveryRule(issue, parser_name, allow_rules) ==
    /\ allow_rules # << >>
    /\ \A i \in 1..Len(allow_rules) : RuleMatches(allow_rules[i], issue, parser_name)

\* mutant: the loop gives up after the first rule
_allowed_FirstRuleOnly(issue, parser_name, allow_rules) ==
    allow_rules # << >> /\ RuleMatches(Head(allow_rules), issue, parser_name)

RECURSIVE _allowed(_, _, _)
_allowed(issue, parser_name, allow_rules) ==
    IF allow_rules = << >> THEN FALSE
    ELSE IF RuleMatches(Head(allow_rules), issue, parser_name) THEN TRUE
    ELSE _allowed(issue, parser_name, Tail(allow_rules))

PolFile1 == "/m/a.msg"
PolFile2 == "/n/a.msg"

\* os.path.basename on the sampled paths
Basename(f) ==
    CASE f = "/m/a.msg" -> "a.msg"
      [] f = "/n/a.msg" -> "a.msg"
      [] f = "/m/b.msg" -> "b.msg"
      [] f \in {"/p/minimal_pst97.pst", "/q/minimal_pst97.pst"} -> "minimal_pst97.pst"
      [] f = "/p/corrupt_offsets_pst97.pst" -> "corrupt_offsets_pst97.pst"
      [] f = "/p/loop_branch_index_pst97.pst" -> "loop_branch_index_pst97.pst"
      [] f = "/p/archive.pst" -> "archive.pst"
      [] OTHER -> f

\* the parts of one line of the violation report
ViolationEntry(file, parser_name, issue) ==
    [name |-> Basename(file), parser |-> parser_name, sev |-> issue.severity,
     field |-> issue.field, baseline |-> issue.baseline, actual |-> issue.actual]

\* for issue in issues
RECURSIVE IssueViolations(_, _, _, _)
IssueViolations(issues, file, parser_name, pol) ==
    IF issues = << >> THEN << >>
    ELSE (IF Head(issues).severity \notin pol.fail_on_severity THEN << >>
          ELSE IF _allowed(Head(issues), parser_name, pol.allow_rules) THEN << >>
          ELSE << ViolationEntry(file, parser_name, Head(issues)) >>)
         \o IssueViolations(Tail(issues), file, parser_name, pol)

\* for parser_name, issues in parser_issues.items()
RECURSIVE ParserViolations(_, _, _)
ParserViolations(parser_issues, file, pol) ==
    IF parser_issues = << >> THEN << >>
    ELSE IssueViolations(Head(parser_issues).val, file, Head(parser_issues).key, pol)
         \o ParserViolations(Tail(parser_issues), file, pol)

\* for file, parser_issues in diff["files"].items()
RECURSIVE Violations(_, _)
Violations(d, pol) ==
    IF d = << >> THEN << >>
    ELSE ParserViolations(Head(d).val, Head(d).key, pol) \o Violations(Tail(d), pol)

\* the exit status of the gate
GateStatus(violations) == IF violations # << >> THEN 1 ELSE 0

GateBanner(violations) ==
    IF violations # << >> THEN "BASELINE POLICY GATE FAILED" ELSE "Baseline policy gate passed."

\* diff = harness.baseline_diff(files, parsers, baseline)
GateDiff ==
    /\ pc = "parsed"
    /\ diff' = baseline_diff(files, parsers, policy.baseline_parser)
    /\ pc' = "diffed"
    /\ UNCHANGED <<files, opts, arg, ret, policy, stdout, rcs, parsers, failures, banner, exit>>

\* the violation loop, the verdict and the return of main
Evaluate ==
    /\ pc = "diffed"
    /\ failures' = Violations(diff, policy)
    /\ banner' = GateBanner(failures')
    /\ exit' = GateStatus(failures')
    /\ pc' = "done"
    /\ UNCHANGED <<files, opts, arg, ret, policy, stdout, rcs, parsers, diff>>

-----------------------------------------------------------------------------
(* Inputs of the policy evaluator *)

\* the longest allow_rules list sampled
MaxRules == 2

\* the sampled allow rules: every key absent, empty or set to one value
RuleSamples ==
    UNION {[ks -> {"", "outlook_msg", "subject", "high"}] : ks \in SUBSET RuleKeys}

RuleValueOk(rule) ==
    /\ "parser" \in DOMAIN rule => rule["parser"] \in {"", "outlook_msg"}
    /\ "field" \in DOMAIN rule => rule["field"] \in {"", "subject"}
    /\ "severity" \in DOMAIN rule => rule["severity"] \in {"", "high"}

AllowRules == {r \in RuleSamples : RuleValueOk(r)}

RECURSIVE RuleLists(_)
RuleLists(n) ==
    IF n = 0 THEN {<< >>}
    ELSE RuleLists(n - 1)
         \cup {<<r>> \o l : r \in AllowRules, l \in {m \in RuleLists(n - 1) : Len(m) = n - 1}}

Policies ==
    {[baseline_parser |-> "ruby-msg", fail_on_severity |-> fo, allow_rules |-> rs] :
        fo \in {{"high"}, {"high", "medium"}, {"medium"}, {}}, rs \in RuleLists(MaxRules)}

\* outlook_msg differs from the baseline in subject, from and body_len of the
\* first file, extract-msg reports an error for it, and the baseline has no
\* row of the second file
DeviatingParsers ==
    << [name |-> "ruby-msg",
        data |-> (PolFile1 :> SuccessRow("ruby-msg", PolFile1, Cat0, 1000, 0))],
       [name |-> "outlook_msg",
        data |-> (PolFile1 :> SuccessRow("outlook_msg", PolFile1,
                                  [Cat0 EXCEPT !["subject"] = 1, !["from"] = 1], 2000, 0))
                 @@ (PolFile2 :> SuccessRow("outlook_msg", PolFile2, Cat0, 1000, 0))],
       [name |-> "extract-msg",
        data |-> (PolFile1 :> ErrorRow("extract-msg", PolFile1))
                 @@ (PolFile2 :> SuccessRow("extract-msg", PolFile2, Cat0, 1000, 0))] >>

\* all parsers agree on both files
AgreeingParsers ==
    << [name |-> "ruby-msg",
        data |-> (PolFile1 :> SuccessRow("ruby-msg", PolFile1, Cat0, 1000, 0))
                 @@ (PolFile2 :> SuccessRow("ruby-msg", PolFile2, Cat0, 1000, 0))],
       [name |-> "outlook_msg",
        data |-> (PolFile1 :> SuccessRow("outlook_msg", PolFile1, Cat0, 1000, 0))
                 @@ (PolFile2 :> SuccessRow("outlook_msg", PolFile2, Cat0, 1000, 0))],
       [name |-> "extract-msg",
        data |-> (PolFile1 :> SuccessRow("extract-msg", PolFile1, Cat0, 1000, 0))
                 @@ (PolFile2 :> SuccessRow("extract-msg", PolFile2, Cat0, 1000, 0))] >>

InitPolicy ==
    /\ pc = "parsed"
    /\ files = <<PolFile1, PolFile2>>
    /\ opts = NoOpts
    /\ policy \in Policies
    /\ parsers \in {DeviatingParsers, AgreeingParsers}
    /\ stdout = << >>
    /\ rcs = << >>
    /\ diff = << >>
    /\ failures = << >>
    /\ banner = ""
    /\ exit = NoExit
    /\ arg = NoArg
    /\ ret = NoArg

NextPolicy == GateDiff \/ Evaluate

SpecPolicy == InitPolicy /\ [][NextPolicy]_vars

-----------------------------------------------------------------------------
(* Properties of the policy evaluator, checked under SpecPolicy *)

\* the issues of the payload, by position: <<file, parser, issue>> indices
IssuePositions ==
    {<<i, j, k>> \in (1..Len(diff)) \X (1..4) \X (1..8) :
        j <= Len(diff[i].val) /\ k <= Len(diff[i].val[j].val)}

PosFile(t) == diff[t[1]].key
PosParser(t) == diff[t[1]].val[t[2]].key
PosIssue(t) == diff[t[1]].val[t[2]].val[t[3]]

\* the attribute of an issue that a rule key constrains
Attribute(k, issue, parser_name) ==
    CASE k = "parser" -> parser_name
      [] k = "field" -> issue.field
      [] k = "severity" -> issue.severity

\* a rule matches when each of its non-empty constraints equals the
\* attribute; an absent or empty constraint is a wildcard
MatchesSet(rule, issue, parser_name) ==
    \A k \in DOMAIN rule : rule[k] = "" \/ rule[k] = Attribute(k, issue, parser_name)

\* a rule matches when each constraint present in it equals the attribute
MatchesPresent(rule, issue, parser_name) ==
    \A k \in DOMAIN rule : rule[k] = Attribute(k, issue, parser_name)

\* the issues that are violations: severity in fail_on_severity and no allow
\* rule matching
ViolatingPositions ==
    {t \in IssuePositions :
        /\ PosIssue(t).severity \in policy.fail_on_severity
        /\ ~\E r \in 1..Len(policy.allow_rules) :
               MatchesSet(policy.allow_rules[r], PosIssue(t), PosParser(t))}

ReportedEntries == {failures[x] : x \in 1..Len(failures)}

\* C1: an issue is reported as a violation iff its severity is in
\* fail_on_severity and no allow rule matches it for its parser; the gate
\* exits with 1 iff the violation list is not empty, and with 0 otherwise.
C1_ViolationsAndStatus ==
    pc = "done" =>
        /\ ReportedEntries
               = {ViolationEntry(PosFile(t), PosParser(t), PosIssue(t)) : t \in ViolatingPositions}
        /\ Len(failures) = Cardinality(ViolatingPositions)
        /\ (exit = 1) <=> (failures # << >>)
        /\ (exit = 0) <=> (failures = << >>)
        /\ banner = IF failures = << >> THEN "Baseline policy gate passed."
                                         ELSE "BASELINE POLICY GATE FAILED"

\* C1 witness: the gate has evaluated a payload where a rule allows some
\* failing issue and another failing issue survives as a violation.
C1_Witness ==
    /\ pc = "done"
    /\ exit = 1
    /\ Len(policy.allow_rules) = 2
    /\ \E t \in IssuePositions :
           /\ PosIssue(t).severity \in policy.fail_on_severity
           /\ t \notin ViolatingPositions
    /\ \E t \in ViolatingPositions : PosParser(t) = "outlook_msg"

\* the issue at the position was not reported although its severity fails
AllowedAt(t) ==
    ViolationEntry(PosFile(t), PosParser(t), PosIssue(t)) \notin ReportedEntries

\* C2 (as claimed): under a policy with one allow rule, an issue of a failing
\* severity is allowed exactly when every constraint present in the rule
\* equals the attribute of the issue.
C2_MatchPresentConstraints ==
    (pc = "done" /\ Len(policy.allow_rules) = 1) =>
        \A t \in IssuePositions :
            PosIssue(t).severity \in policy.fail_on_severity =>
                (AllowedAt(t) <=> MatchesPresent(policy.allow_rules[1], PosIssue(t), PosParser(t)))

\* C2 (amended): under a policy with one allow rule, an issue of a failing
\* severity is allowed exactly when every constraint of the rule that is set
\* to a non-empty value equals the attribute of the issue; an absent or empty
\* constraint is a wildcard.  A rule without constraints allows every issue,
\* a rule with only field set allows every issue of that field.
C2_MatchSetConstraints ==
    (pc = "done" /\ Len(policy.allow_rules) = 1) =>
        LET rule == policy.allow_rules[1] IN
        /\ \A t \in IssuePositions :
               PosIssue(t).severity \in policy.fail_on_severity =>
                   (AllowedAt(t) <=> MatchesSet(rule, PosIssue(t), PosParser(t)))
        /\ DOMAIN rule = {} => failures = << >>
        /\ (DOMAIN rule = {"field"} /\ rule["field"] # "") =>
               \A x \in 1..Len(failures) : failures[x].field # rule["field"]

\* C2 witness: a rule with only field set has allowed the subject issue of
\* outlook_msg while the subject issue count of the payload is not zero, and
\* other issues stayed violations.
C2_Witness ==
    /\ pc = "done"
    /\ Len(policy.allow_rules) = 1
    /\ DOMAIN policy.allow_rules[1] = {"field"}
    /\ policy.allow_rules[1]["field"] = "subject"
    /\ \E t \in IssuePositions :
           /\ PosIssue(t).field = "subject"
           /\ PosIssue(t).severity \in policy.fail_on_severity
           /\ AllowedAt(t)
    /\ failures # << >>

-----------------------------------------------------------------------------
(* The oracle adapters: running an oracle and decoding its output *)

\* mutant: the exit status of the oracle process is not looked at
RunRaises_Never(rc) == FALSE

\* _run: "if p.returncode != 0: raise RuntimeError"
RunRaises(rc) == rc # 0

\* the exit statuses sampled for an oracle process (-9: killed by a signal)
ExitCodes == {0, 1, -9}

\* results[file] = row on a result set
PutRow(results, f, row) ==
    [g \in DOMAIN results \cup {f} |-> IF g = f THEN row ELSE results[g]]

NoRows == [f \in {} |-> EmptyDict]

\* parse_ruby and parse_msg_viewer: a line that starts with "{" is a JSON
\* object and is stored under its "file"; any other line is skipped
DecodeJsonLine(results, line) ==
    IF line.kind = "json" THEN PutRow(results, line.row["file"].s, line.row)
    ELSE results

RECURSIVE DecodeJson(_, _)
DecodeJson(results, lines) ==
    IF lines = << >> THEN results
    ELSE DecodeJson(DecodeJsonLine(results, Head(lines)), Tail(lines))

\* parse_elixir: a ROW line of at least 17 parts stores the success record
\* decoded from its parts, an ERR line of at least 3 parts stores an error
\* record, any other line is skipped
DecodeElixirLine(results, line) ==
    IF line.tag = "ROW" /\ line.nparts >= 17 THEN PutRow(results, line.file, line.row)
    ELSE IF line.tag = "ERR" /\ line.nparts >= 3
    THEN PutRow(results, line.file, ErrorRow("outlook_msg", line.file))
    ELSE results

RECURSIVE DecodeElixir(_, _)
DecodeElixir(results, lines) ==
    IF lines = << >> THEN results
    ELSE DecodeElixir(DecodeElixirLine(results, Head(lines)), Tail(lines))

\* the lines sampled for one file of a JSON oracle: a success row, an error
\* row, or a line that is no JSON object
JsonLines(parser, f) ==
    {[kind |-> "json", row |-> SuccessRow(parser, f, Cat0, 1000, 0)],
     [kind |-> "json", row |-> ErrorRow(parser, f)],
     [kind |-> "text", row |-> EmptyDict]}

\* the lines sampled for one file of the outlook_msg oracle: two success
\* rows, a row that is one part short, an error row, a line without marker
ElixirLines(f) ==
    {[tag |-> "ROW", nparts |-> 17, file |-> f,
      row |-> SuccessRow("outlook_msg", f, Cat0, 1000, 0)],
     [tag |-> "ROW", nparts |-> 17, file |-> f,
      row |-> SuccessRow("outlook_msg", f, [Cat0 EXCEPT !["subject"] = 1], 2000, 0)],
     [tag |-> "ROW", nparts |-> 16, file |-> f,
      row |-> SuccessRow("outlook_msg", f, Cat0, 1000, 0)],
     [tag |-> "ERR", nparts |-> 3, file |-> f, row |-> EmptyDict],
     [tag |-> "warning:", nparts |-> 1, file |-> "", row |-> EmptyDict]}

\* the outputs of the JSON oracle of a parser: one line per file, in order
JsonOutputs(parser, fs) ==
    {out \in [1..Len(fs) -> UNION {JsonLines(parser, fs[i]) : i \in 1..Len(fs)}] :
        \A i \in 1..Len(fs) : out[i] \in JsonLines(parser, fs[i])}

ElixirOutputs(fs) ==
    {out \in [1..Len(fs) -> UNION {ElixirLines(fs[i]) : i \in 1..Len(fs)}] :
        \A i \in 1..Len(fs) : out[i] \in ElixirLines(fs[i])}

\* parse_extract_msg: in process, a success or an error record per file
ExtractResults(fs) ==
    {res \in [{fs[i] : i \in 1..Len(fs)} ->
                UNION {{SuccessRow("extract-msg", fs[i], Cat0, 1000, 0),
                        ErrorRow("extract-msg", fs[i])} : i \in 1..Len(fs)}] :
        \A i \in 1..Len(fs) : res[fs[i]]["file"].s = fs[i]}

\* the uncaught RuntimeError ends the tool: no verdict, exit status 1
Abort(name, rc) ==
    /\ rcs' = rcs @@ (name :> rc)
    /\ pc' = "aborted"
    /\ exit' = 1
    /\ UNCHANGED <<files, opts, arg, ret, policy, stdout, parsers, diff, failures, banner>>

\* "ruby-msg": harness.parse_ruby(files, args.ruby_root)
ParseRuby ==
    /\ pc = "start"
    /\ \E rc \in ExitCodes :
          IF RunRaises(rc) THEN Abort("ruby-msg", rc)
          ELSE \E out \in JsonOutputs("ruby-msg", files) :
                  /\ rcs' = rcs @@ ("ruby-msg" :> rc)
                  /\ stdout' = stdout @@ ("ruby-msg" :> out)
                  /\ parsers' = Append(parsers, [name |-> "ruby-msg",
                                                 data |-> DecodeJson(NoRows, out)])
                  /\ pc' = "ruby"
                  /\ UNCHANGED <<files, opts, arg, ret, policy, diff, failures, banner, exit>>

\* "outlook_msg": harness.parse_elixir(files, args.elixir_root)
ParseElixir ==
    /\ pc = "ruby"
    /\ \E rc \in ExitCodes :
          IF RunRaises(rc) THEN Abort("outlook_msg", rc)
          ELSE \E out \in ElixirOutputs(files) :
                  /\ rcs' = rcs @@ ("outlook_msg" :> rc)
                  /\ stdout' = stdout @@ ("outlook_msg" :> out)
                  /\ parsers' = Append(parsers, [name |-> "outlook_msg",
                                                 data |-> DecodeElixir(NoRows, out)])
                  /\ pc' = "elixir"
                  /\ UNCHANGED <<files, opts, arg, ret, policy, diff, failures, banner, exit>>

\* "extract-msg": harness.parse_extract_msg(files); no process is spawned
ParseExtractMsg ==
    /\ pc = "elixir"
    /\ \E res \in ExtractResults(files) :
          parsers' = Append(parsers, [name |-> "extract-msg", data |-> res])
    /\ pc' = IF opts.with_msg_viewer THEN "extract" ELSE "parsed"
    /\ UNCHANGED <<files, opts, arg, ret, policy, stdout, rcs, diff, failures, banner, exit>>

\* parsers["msg-viewer"] = harness.parse_msg_viewer(files, args.msg_viewer_root):
\* an empty result set when the root is no directory, the oracle otherwise
ParseMsgViewer ==
    /\ pc = "extract"
    /\ \/ /\ parsers' = Append(parsers, [name |-> "msg-viewer", data |-> NoRows])
          /\ pc' = "parsed"
          /\ UNCHANGED <<files, opts, arg, ret, policy, stdout, rcs, diff, failures, banner, exit>>
       \/ \E rc \in ExitCodes :
             IF RunRaises(rc) THEN Abort("msg-viewer", rc)
             ELSE \E out \in JsonOutputs("msg-viewer", files) :
                     /\ rcs' = rcs @@ ("msg-viewer" :> rc)
                     /\ stdout' = stdout @@ ("msg-viewer" :> out)
                     /\ parsers' = Append(parsers, [name |-> "msg-viewer",
                                                    data |-> DecodeJson(NoRows, out)])
                     /\ pc' = "parsed"
                     /\ UNCHANGED <<files, opts, arg, ret, policy, diff, failures, banner, exit>>

GateFile1 == "/m/a.msg"
GateFile2 == "/m/b.msg"

GatePolicies ==
    {[baseline_parser |-> b, fail_on_severity |-> fo, allow_rules |-> rs] :
        b \in {"ruby-msg", "msg-viewer"},
        fo \in {{"high"}},
        rs \in {<< >>, <<[field |-> "parser"]>>}}

\* the state of baseline_gate.main once the policy is loaded
InitGate ==
    /\ pc = "start"
    /\ files = <<GateFile1, GateFile2>>
    /\ opts \in {[with_msg_viewer |-> v] : v \in BOOLEAN}
    /\ policy \in GatePolicies
    /\ stdout = << >>
    /\ rcs = << >>
    /\ parsers = << >>
    /\ diff = << >>
    /\ failures = << >>
    /\ banner = ""
    /\ exit = NoExit
    /\ arg = NoArg
    /\ ret = NoArg

NextGate ==
    \/ ParseRuby
    \/ ParseElixir
    \/ ParseExtractMsg
    \/ ParseMsgViewer
    \/ GateDiff
    \/ Evaluate

SpecGate == InitGate /\ [][NextGate]_vars

-----------------------------------------------------------------------------
(* Properties of the whole baseline gate run, checked under SpecGate *)

\* the oracle processes that exited with a non-zero status
FailedOracles == {o \in DOMAIN rcs : rcs[o] # 0}

\* the oracles the run asks for
RequestedParsers ==
    {"ruby-msg", "outlook_msg", "extract-msg"}
    \cup (IF opts.with_msg_viewer THEN {"msg-viewer"} ELSE {})

\* C6: if an oracle process exits with a non-zero status the run aborts: no
\* result set is kept for that oracle, no comparison is made and no verdict
\* is printed; a verdict is only ever printed by a run in which every spawned
\* oracle exited with zero, every requested oracle returned its result set
\* and every requested file was compared against every non-baseline oracle.
C6_OracleFailureAborts ==
    /\ FailedOracles # {} =>
           /\ pc = "aborted"
           /\ FailedOracles \cap ParserNames(parsers) = {}
           /\ FailedOracles \cap DOMAIN stdout = {}
           /\ diff = << >>
           /\ failures = << >>
           /\ banner = ""
           /\ exit # 0
    /\ (banner # "" \/ exit = 0) =>
           /\ pc = "done"
           /\ FailedOracles = {}
           /\ ParserNames(parsers) = RequestedParsers
           /\ DictKeys(diff) = {files[i] : i \in 1..Len(files)}
           /\ \A i \in 1..Len(diff) :
                  DictKeys(diff[i].val) = RequestedParsers \ {policy.baseline_parser}

\* C6 witness: ruby-msg had returned its result set when the outlook_msg
\* oracle exited with a non-zero status, and the run is aborted.
C6_Witness ==
    /\ pc = "aborted"
    /\ "ruby-msg" \in ParserNames(parsers)
    /\ "outlook_msg" \in DOMAIN rcs
    /\ rcs["outlook_msg"] # 0
    /\ banner = ""

-----------------------------------------------------------------------------
(* warning_gate.py: the warning policy gate *)

\* rows.setdefault(f, []).append(w) on the warnings by file
AppendWarning(rows, f, w) ==
    [g \in DOMAIN rows \cup {f} |->
        IF g = f THEN (IF f \in DOMAIN rows THEN Append(rows[f], w) ELSE <<w>>)
        ELSE rows[g]]

\* rows.setdefault(f, [])
SetDefault(rows, f) ==
    [g \in DOMAIN rows \cup {f} |-> IF g \in DOMAIN rows THEN rows[g] ELSE << >>]

\* mutant: an ERR line only registers its file, no synthetic warning
DecodeWarningLine_ErrDropped(rows, line) ==
    IF line.tag = "WARN" /\ line.nparts >= 7
    THEN AppendWarning(rows, line.file,
             [code |-> line.code, severity |-> line.sev,
              recoverable |-> (line.rec = "true"), context |-> "", message |-> line.msg])
    ELSE IF line.tag = "ERR" /\ line.nparts >= 3 THEN SetDefault(rows, line.file)
    ELSE IF line.tag = "OK" /\ line.nparts >= 2 THEN SetDefault(rows, line.file)
    ELSE rows

\* collect_warnings, one line: a WARN line of at least 7 parts adds the
\* decoded warning, an ERR line of at least 3 parts adds the synthetic
\* parse_error warning, an OK line of at least 2 parts adds nothing
DecodeWarningLine(rows, line) ==
    IF line.tag = "WARN" /\ line.nparts >= 7
    THEN AppendWarning(rows, line.file,
             [code |-> line.code, severity |-> line.sev,
              recoverable |-> (line.rec = "true"), context |-> "", message |-> line.msg])
    ELSE IF line.tag = "ERR" /\ line.nparts >= 3
    THEN AppendWarning(rows, line.file,
             [code |-> "parse_error", severity |-> "error",
              recoverable |-> FALSE, context |-> "", message |-> line.msg])
    ELSE IF line.tag = "OK" /\ line.nparts >= 2 THEN SetDefault(rows, line.file)
    ELSE rows

RECURSIVE DecodeWarnings(_, _)
DecodeWarnings(rows, lines) ==
    IF lines = << >> THEN rows
    ELSE DecodeWarnings(DecodeWarningLine(rows, Head(lines)), Tail(lines))

\* rows = {f: [] for f in files}
EmptyWarnings(fs) == [f \in {fs[i] : i \in 1..Len(fs)} |-> << >>]

\* warnings_by_file.get(f, [])
WarningsOf(rows, f) == IF f \in DOMAIN rows THEN rows[f] ELSE << >>

\* mutant: the allow-list is consulted only for a warning of a failing severity
TripsAllow_OnlyFailing(w, pol) ==
    /\ pol.allow_codes # {}
    /\ w.code \notin pol.allow_codes
    /\ w.severity \in pol.fail_on_severity

\* the three checks of a warning, in the order of the loop body
TripsAllow(w, pol) == pol.allow_codes # {} /\ w.code \notin pol.allow_codes
TripsSeverity(w, pol) == w.severity \in pol.fail_on_severity
TripsNonRecoverable(w, pol) == pol.fail_on_non_recoverable /\ ~w.recoverable

FailureEntry(f, kind, w) ==
    [file |-> f, kind |-> kind, code |-> w.code, sev |-> w.severity, message |-> w.message]

\* mutant: no continue after a failed check, every tripped check adds an entry
WarningFailures_NoContinue(w, f, pol) ==
    (IF TripsAllow(w, pol) THEN << FailureEntry(f, "not_allowlisted", w) >> ELSE << >>)
    \o (IF TripsSeverity(w, pol) THEN << FailureEntry(f, "severity", w) >> ELSE << >>)
    \o (IF TripsNonRecoverable(w, pol) THEN << FailureEntry(f, "non_recoverable", w) >> ELSE << >>)

\* the body of "for w in rows": the entries one warning adds
WarningFailures(w, f, pol) ==
    IF TripsAllow(w, pol) THEN << FailureEntry(f, "not_allowlisted", w) >>
    ELSE IF TripsSeverity(w, pol) THEN << FailureEntry(f, "severity", w) >>
    ELSE IF TripsNonRecoverable(w, pol) THEN << FailureEntry(f, "non_recoverable", w) >>
    ELSE << >>

RECURSIVE RowsFailures(_, _, _)
RowsFailures(rows, f, pol) ==
    IF rows = << >> THEN << >>
    ELSE WarningFailures(Head(rows), f, pol) \o RowsFailures(Tail(rows), f, pol)

\* mutant: a count equal to the limit already fails
CountFailure_AtLimit(rows, f, pol) ==
    IF Len(rows) >= pol.max_warnings_per_file
    THEN << [file |-> f, kind |-> "too_many", code |-> "", sev |-> "", message |-> ""] >>
    ELSE << >>

\* "if len(rows) > max_per_file": the entry of the count check
CountFailure(rows, f, pol) ==
    IF Len(rows) > pol.max_warnings_per_file
    THEN << [file |-> f, kind |-> "too_many", code |-> "", sev |-> "", message |-> ""] >>
    ELSE << >>

\* for f in files
RECURSIVE FilesFailures(_, _, _)
FilesFailures(fs, rows, pol) ==
    IF fs = << >> THEN << >>
    ELSE CountFailure(WarningsOf(rows, Head(fs)), Head(fs), pol)
         \o RowsFailures(WarningsOf(rows, Head(fs)), Head(fs), pol)
         \o FilesFailures(Tail(fs), rows, pol)

WarningGateStatus(fl) == IF fl # << >> THEN 2 ELSE 0

WarningGateBanner(fl) ==
    IF fl # << >> THEN "WARNING POLICY GATE FAILED" ELSE "Warning policy gate passed."

-----------------------------------------------------------------------------
(* Inputs of the warning gate *)

\* the most WARN lines sampled for one file
MaxWarnings == 2

\* the default of max_warnings_per_file
DefaultMaxPerFile == 50

WarnFile1 == "/m/a.msg"
WarnFile2 == "/m/b.eml"

WarnLine(f, code, sev, rec) ==
    [tag |-> "WARN", nparts |-> 7, file |-> f, code |-> code, sev |-> sev,
     rec |-> rec, msg |-> "m"]

OtherLine(tag, nparts, f) ==
    [tag |-> tag, nparts |-> nparts, file |-> f, code |-> "", sev |-> "",
     rec |-> "", msg |-> "m"]

WarnLines(f) ==
    {WarnLine(f, c, sv, r) :
        c \in {"known_quirk", "other_code"}, sv \in {"warn", "error"}, r \in {"true", "false"}}

RECURSIVE WarnSeqs(_, _)
WarnSeqs(f, n) ==
    IF n = 0 THEN {<< >>}
    ELSE WarnSeqs(f, n - 1)
         \cup {<<l>> \o sq : l \in WarnLines(f), sq \in {m \in WarnSeqs(f, n - 1) : Len(m) = n - 1}}

\* what the oracle writes for the first file: OK, its warnings, ERR, or a
\* line that is no row
FirstFileOutputs ==
    (WarnSeqs(WarnFile1, MaxWarnings) \ {<< >>})
    \cup {<<OtherLine("OK", 2, WarnFile1)>>, <<OtherLine("ERR", 3, WarnFile1)>>,
          <<OtherLine("Compiling", 1, "")>>}

SecondFileOutputs ==
    {<<OtherLine("OK", 2, WarnFile2)>>, <<OtherLine("Compiling", 1, "")>>,
     <<WarnLine(WarnFile2, "known_quirk", "warn", "true")>>}

WarningOutputs == {a \o b : a \in FirstFileOutputs, b \in SecondFileOutputs}

WarningPolicies ==
    [fail_on_severity : {{"error"}, {}},
     fail_on_non_recoverable : BOOLEAN,
     max_warnings_per_file : {1, 2, DefaultMaxPerFile},
     allow_codes : {{}, {"known_quirk"}}]

InitWarning ==
    /\ pc = "start"
    /\ files = <<WarnFile1, WarnFile2>>
    /\ opts = NoOpts
    /\ policy \in WarningPolicies
    /\ stdout = << >>
    /\ rcs = << >>
    /\ parsers = << >>
    /\ diff = << >>
    /\ failures = << >>
    /\ banner = ""
    /\ exit = NoExit
    /\ arg = NoArg
    /\ ret = NoArg

\* warnings_by_file = collect_warnings(files, args.elixir_root)
CollectWarnings ==
    /\ pc = "start"
    /\ \E rc \in ExitCodes :
          IF RunRaises(rc) THEN Abort("outlook_msg", rc)
          ELSE \E out \in WarningOutputs :
                  /\ rcs' = rcs @@ ("outlook_msg" :> rc)
                  /\ stdout' = stdout @@ ("outlook_msg" :> out)
                  /\ parsers' = <<[name |-> "outlook_msg",
                                   data |-> DecodeWarnings(EmptyWarnings(files), out)]>>
                  /\ pc' = "collected"
                  /\ UNCHANGED <<files, opts, arg, ret, policy, diff, failures, banner, exit>>

\* the loop over the files, the verdict and the return of main
EvaluateWarnings ==
    /\ pc = "collected"
    /\ failures' = FilesFailures(files, parsers[1].data, policy)
    /\ banner' = WarningGateBanner(failures')
    /\ exit' = WarningGateStatus(failures')
    /\ pc' = "done"
    /\ UNCHANGED <<files, opts, arg, ret, policy, stdout, rcs, parsers, diff>>

NextWarning == CollectWarnings \/ EvaluateWarnings

SpecWarning == InitWarning /\ [][NextWarning]_vars

-----------------------------------------------------------------------------
(* Properties of the warning gate *)

WarningRows == parsers[1].data

RequestedFiles == {files[i] : i \in 1..Len(files)}

\* the positions of the warnings decoded for the requested files
WarningPositions ==
    {<<f, i>> : f \in RequestedFiles, i \in 1..MaxWarnings + 1}
    \cap {p \in RequestedFiles \X (1..MaxWarnings + 1) : p[2] <= Len(WarningsOf(WarningRows, p[1]))}

WarningAt(p) == WarningsOf(WarningRows, p[1])[p[2]]

ChecksTripped(w) ==
    (IF TripsAllow(w, policy) THEN {"not_allowlisted"} ELSE {})
    \cup (IF TripsSeverity(w, policy) THEN {"severity"} ELSE {})
    \cup (IF TripsNonRecoverable(w, policy) THEN {"non_recoverable"} ELSE {})

\* the check a warning is reported under: the first it trips, in the order
\* allow-list, severity, non-recoverable
FirstTripped(w) ==
    IF TripsAllow(w, policy) THEN {"not_allowlisted"}
    ELSE IF TripsSeverity(w, policy) THEN {"severity"}
    ELSE IF TripsNonRecoverable(w, policy) THEN {"non_recoverable"}
    ELSE {}

OverCount(f) == Len(WarningsOf(WarningRows, f)) > policy.max_warnings_per_file

EntriesOf(f, kind) ==
    Cardinality({i \in 1..Len(failures) : failures[i].file = f /\ failures[i].kind = kind})

WarningKinds == {"not_allowlisted", "severity", "non_recoverable"}

\* C9 as stated: the checks are additive, a warning adds one entry for each
\* check it trips (allow-list, severity, non-recoverable), and the per-file
\* count check adds its own entry
C9_ChecksAdditive ==
    pc = "done" =>
        \A f \in RequestedFiles :
            /\ EntriesOf(f, "too_many") = (IF OverCount(f) THEN 1 ELSE 0)
            /\ \A kind \in WarningKinds :
                   EntriesOf(f, kind)
                     = Cardinality({p \in WarningPositions :
                                       p[1] = f /\ kind \in ChecksTripped(WarningAt(p))})

\* C9 amended: the per-file count check adds its own entry whatever the
\* warnings are, and each warning adds exactly one entry when it trips some
\* check, that of the first check it trips in the order allow-list,
\* severity, non-recoverable, and none otherwise
C9_FirstTrippedCheckOnly ==
    pc = "done" =>
        /\ \A f \in RequestedFiles :
               /\ EntriesOf(f, "too_many") = (IF OverCount(f) THEN 1 ELSE 0)
               /\ \A kind \in WarningKinds :
                      EntriesOf(f, kind)
                        = Cardinality({p \in WarningPositions :
                                          p[1] = f /\ kind \in FirstTripped(WarningAt(p))})
        /\ Len(failures)
             = Cardinality({f \in RequestedFiles : OverCount(f)})
               + Cardinality({p \in WarningPositions : ChecksTripped(WarningAt(p)) # {}})
        /\ exit = (IF failures # << >> THEN 2 ELSE 0)

\* a file over the count limit whose first warning trips all three checks:
\* one entry for the count, one entry for that warning
C9_Witness ==
    /\ pc = "done"
    /\ OverCount(WarnFile1)
    /\ EntriesOf(WarnFile1, "too_many") = 1
    /\ Cardinality(ChecksTripped(WarningAt(<<WarnFile1, 1>>))) = 3
    /\ ChecksTripped(WarningAt(<<WarnFile1, 2>>)) = {}
    /\ Len(failures) = 2

\* C10: when allow_codes is not empty, a warning of a requested file whose
\* code is outside it is reported as not allow-listed and the gate fails,
\* whatever its severity and recoverability
C10_AllowListViolation ==
    pc = "done" =>
        \A p \in WarningPositions :
            (policy.allow_codes # {} /\ WarningAt(p).code \notin policy.allow_codes) =>
                /\ \E i \in 1..Len(failures) :
                       /\ failures[i].file = p[1]
                       /\ failures[i].kind = "not_allowlisted"
                       /\ failures[i].code = WarningAt(p).code
                /\ exit = 2
                /\ banner = "WARNING POLICY GATE FAILED"

\* a recoverable warning of severity warn, under a policy that fails on no
\* severity and not on non-recoverable warnings, fails the gate by its code
C10_Witness ==
    /\ pc = "done"
    /\ policy.allow_codes = {"known_quirk"}
    /\ policy.fail_on_severity = {}
    /\ ~policy.fail_on_non_recoverable
    /\ Len(WarningsOf(WarningRows, WarnFile1)) = 1
    /\ WarningAt(<<WarnFile1, 1>>).code = "other_code"
    /\ WarningAt(<<WarnFile1, 1>>).severity = "warn"
    /\ WarningAt(<<WarnFile1, 1>>).recoverable
    /\ exit = 2

\* a line of the oracle's output that decodes to a row of file f
DecodableRow(line, f) ==
    /\ line.file = f
    /\ \/ line.tag = "WARN" /\ line.nparts >= 7
       \/ line.tag = "ERR" /\ line.nparts >= 3
       \/ line.tag = "OK" /\ line.nparts >= 2

NoDecodableRow(f) ==
    /\ "outlook_msg" \in DOMAIN stdout
    /\ \A i \in 1..Len(stdout["outlook_msg"]) : ~DecodableRow(stdout["outlook_msg"][i], f)

\* C5: a requested file for which the oracle produced no decodable row ends
\* the gate with a failure verdict
C5_NoRowFailsGate ==
    pc = "done" =>
        \A f \in RequestedFiles :
            NoDecodableRow(f) => (exit # 0 /\ banner # "Warning policy gate passed.")

-----------------------------------------------------------------------------
(* The synthetic parse_error warning *)

\* the oracle reported a parse failure of file f
ErrRow(f) ==
    /\ "outlook_msg" \in DOMAIN stdout
    /\ \E i \in 1..Len(stdout["outlook_msg"]) :
           /\ stdout["outlook_msg"][i].tag = "ERR"
           /\ stdout["outlook_msg"][i].nparts >= 3
           /\ stdout["outlook_msg"][i].file = f

IsParseError(w) == w.code = "parse_error" /\ w.severity = "error" /\ ~w.recoverable

HasParseError(f) ==
    \E i \in 1..Len(WarningsOf(WarningRows, f)) : IsParseError(WarningsOf(WarningRows, f)[i])

\* some check of the policy applies to the parse_error warning
PolicyCatchesParseError ==
    \/ "error" \in policy.fail_on_severity
    \/ policy.fail_on_non_recoverable
    \/ policy.allow_codes # {} /\ "parse_error" \notin policy.allow_codes

-----------------------------------------------------------------------------
(* Text normalization: the three _norm functions.  A string is the sequence
   of its characters. *)

NUL == "\\x00"

\* the value None where a string is expected: no string, as its one element
\* is not a character
NoneStr == <<"None">>

\* the characters for which str.isspace() holds and \s matches
Whitespace == {" ", "\t", "\n"}

\* s.replace("\x00", "")
RemoveNul(s) == SelectSeq(s, LAMBDA c : c # NUL)

\* re.sub(r"\s+", " ", s): every maximal run of whitespace becomes one space
RECURSIVE SkipWs(_)
SkipWs(s) == IF s # << >> /\ Head(s) \in Whitespace THEN SkipWs(Tail(s)) ELSE s

RECURSIVE CollapseWs(_)
CollapseWs(s) ==
    IF s = << >> THEN << >>
    ELSE IF Head(s) \in Whitespace THEN <<" ">> \o CollapseWs(SkipWs(s))
    ELSE <<Head(s)>> \o CollapseWs(Tail(s))

RECURSIVE RStrip(_)
RStrip(s) ==
    IF s # << >> /\ s[Len(s)] \in Whitespace THEN RStrip(SubSeq(s, 1, Len(s) - 1)) ELSE s

\* mutant: only the leading whitespace is removed
Strip_LeadingOnly(s) == SkipWs(s)

\* str.strip()
Strip(s) == RStrip(SkipWs(s))

\* str.split(): the maximal runs of characters that are not whitespace
RECURSIVE TakeWord(_)
TakeWord(s) ==
    IF s = << >> \/ Head(s) \in Whitespace THEN << >> ELSE <<Head(s)>> \o TakeWord(Tail(s))

RECURSIVE Split(_)
Split(s) ==
    IF SkipWs(s) = << >> THEN << >>
    ELSE <<TakeWord(SkipWs(s))>>
         \o Split(SubSeq(SkipWs(s), Len(TakeWord(SkipWs(s))) + 1, Len(SkipWs(s))))

\* sep.join(words)
RECURSIVE Join(_, _)
Join(sep, words) ==
    IF words = << >> THEN << >>
    ELSE IF Len(words) = 1 THEN words[1]
    ELSE words[1] \o sep \o Join(sep, Tail(words))

\* msg_diff_harness._norm
_norm(v) == IF v = NoneStr THEN << >> ELSE Strip(CollapseWs(RemoveNul(v)))

\* eml_diff_harness._norm
eml_norm(v) == IF v = NoneStr THEN << >> ELSE Join(<<" ">>, Split(RemoveNul(v)))

\* semantic_gate._norm
semantic_norm(v) == IF v = NoneStr THEN << >> ELSE Join(<<" ">>, Split(RemoveNul(v)))

NormFunctions == {"msg_diff_harness._norm", "eml_diff_harness._norm", "semantic_gate._norm"}

ApplyNorm(fn, v) ==
    CASE fn = "msg_diff_harness._norm" -> _norm(v)
      [] fn = "eml_diff_harness._norm" -> eml_norm(v)
      [] fn = "semantic_gate._norm" -> semantic_norm(v)

\* the longest string normalized
MaxStr == 5

Chars == {"a", NUL} \cup Whitespace

RECURSIVE Strings(_)
Strings(n) ==
    IF n = 0 THEN {<< >>}
    ELSE Strings(n - 1)
         \cup {<<c>> \o t : c \in Chars, t \in {u \in Strings(n - 1) : Len(u) = n - 1}}

\* no gate runs: only the helper function is called
Idle ==
    /\ files = << >>
    /\ opts = NoOpts
    /\ policy = << >>
    /\ stdout = << >>
    /\ rcs = << >>
    /\ parsers = << >>
    /\ diff = << >>
    /\ failures = << >>
    /\ banner = ""
    /\ exit = NoExit

InitNorm ==
    /\ pc = "call"
    /\ Idle
    /\ \E fn \in NormFunctions, v \in Strings(MaxStr) \cup {NoneStr} :
           arg = [fn |-> fn, orig |-> v, v |-> v]
    /\ ret = NoArg

\* r = _norm(v)
Normalize ==
    /\ pc = "call"
    /\ ret' = ApplyNorm(arg.fn, arg.v)
    /\ pc' = "returned"
    /\ UNCHANGED <<files, opts, arg, policy, stdout, rcs, parsers, diff, failures, banner, exit>>

\* _norm(r), the function applied to its own result
NormalizeAgain ==
    /\ pc = "returned"
    /\ arg' = [arg EXCEPT !.v = ret]
    /\ ret' = ApplyNorm(arg.fn, ret)
    /\ pc' = "again"
    /\ UNCHANGED <<files, opts, policy, stdout, rcs, parsers, diff, failures, banner, exit>>

NextNorm == Normalize \/ NormalizeAgain

SpecNorm == InitNorm /\ [][NextNorm]_vars

\* C12: text normalization is idempotent, and its result has no NUL, no
\* whitespace other than single spaces, and no leading or trailing space
C12_NormIdempotent ==
    /\ pc = "returned" /\ arg.v = NoneStr => ret = << >>
    /\ pc = "again" => ret = arg.v
    /\ pc \in {"returned", "again"} =>
           /\ \A i \in 1..Len(ret) : ret[i] # NUL /\ ret[i] \notin Whitespace \ {" "}
           /\ \A i \in 1..Len(ret) - 1 : ~(ret[i] = " " /\ ret[i + 1] = " ")
           /\ ret # << >> => (ret[1] # " " /\ ret[Len(ret)] # " ")

\* a string with a NUL inside a run of mixed whitespace was changed by the
\* first call and its result left alone by the second
C12_Witness ==
    /\ pc = "again"
    /\ arg.orig = <<"a", " ", NUL, "\t", "a">>
    /\ arg.v = <<"a", " ", "a">>
    /\ ret = <<"a", " ", "a">>

-----------------------------------------------------------------------------
(* email.utils.getaddresses, as called by _norm_addr: the address parser of
   the standard library on a field without comments, groups, dots, domain
   literals and backslashes.  Every function returns its value and the
   position it leaves the parser at. *)

LWS == {" ", "\t"}
FWS == {" ", "\t", "\n"}
Specials == {"<", ">", "@", ",", "\""}
AtomEnds == Specials \cup FWS

Flatten(parts) == Join(<< >>, parts)

\* gotonext: skip white space; the value is the skipped LWS
RECURSIVE gotonext(_, _)
gotonext(f, pos) ==
    IF pos <= Len(f) /\ f[pos] \in FWS
    THEN [gotonext(f, pos + 1) EXCEPT
              !.v = (IF f[pos] \in LWS THEN <<f[pos]>> ELSE << >>) \o @]
    ELSE [v |-> << >>, pos |-> pos]

RECURSIVE getatom(_, _)
getatom(f, pos) ==
    IF pos <= Len(f) /\ f[pos] \notin AtomEnds
    THEN [getatom(f, pos + 1) EXCEPT !.v = <<f[pos]>> \o @]
    ELSE [v |-> << >>, pos |-> pos]

\* the loop of getdelimited for a quoted string, after the opening quote
RECURSIVE QuoteBody(_, _)
QuoteBody(f, pos) ==
    IF pos > Len(f) THEN [v |-> << >>, pos |-> pos]
    ELSE IF f[pos] = "\"" THEN [v |-> << >>, pos |-> pos + 1]
    ELSE [QuoteBody(f, pos + 1) EXCEPT !.v = <<f[pos]>> \o @]

getquote(f, pos) ==
    IF f[pos] # "\"" THEN [v |-> << >>, pos |-> pos] ELSE QuoteBody(f, pos + 1)

RECURSIVE getphraselist(_, _)

\* plist.append(word), and the loop goes on behind the word
PhraseRest(f, word) == [getphraselist(f, word.pos) EXCEPT !.v = <<word.v>> \o @]

getphraselist(f, pos) ==
    IF pos > Len(f) THEN [v |-> << >>, pos |-> pos]
    ELSE IF f[pos] \in FWS THEN getphraselist(f, pos + 1)
    ELSE IF f[pos] = "\"" THEN PhraseRest(f, getquote(f, pos))
    ELSE IF f[pos] \in AtomEnds THEN [v |-> << >>, pos |-> pos]
    ELSE PhraseRest(f, getatom(f, pos))

RECURSIVE getdomain(_, _)

\* sdlist.append(atom), and the loop goes on behind the atom
DomainRest(f, atom) == [getdomain(f, atom.pos) EXCEPT !.v = atom.v \o @]

\* getdomain; ok is false where the code returns the empty string at a
\* second @
getdomain(f, pos) ==
    IF pos > Len(f) THEN [v |-> << >>, pos |-> pos, ok |-> TRUE]
    ELSE IF f[pos] \in LWS THEN getdomain(f, pos + 1)
    ELSE IF f[pos] = "@" THEN [v |-> << >>, pos |-> pos, ok |-> FALSE]
    ELSE IF f[pos] \in AtomEnds THEN [v |-> << >>, pos |-> pos, ok |-> TRUE]
    ELSE DomainRest(f, getatom(f, pos))

\* "if aslist and not aslist[-1].strip(): aslist.pop()"
PopBlank(aslist) ==
    IF aslist # << >> /\ Strip(aslist[Len(aslist)]) = << >>
    THEN SubSeq(aslist, 1, Len(aslist) - 1)
    ELSE aslist

RECURSIVE LocalPart(_, _, _)

\* "ws = self.gotonext(); if ws: aslist.append(ws)", and the loop goes on
LocalWs(f, aslist, ws) ==
    LocalPart(f, ws.pos, aslist \o (IF ws.v # << >> THEN <<ws.v>> ELSE << >>))

\* aslist.append of a quoted string (with its quotes) or of an atom
LocalWord(f, aslist, word, quoted) ==
    LocalWs(f,
            Append(aslist, IF quoted THEN <<"\"">> \o word.v \o <<"\"">> ELSE word.v),
            gotonext(f, word.pos))

\* the loop of getaddrspec: the parts of the local part
LocalPart(f, pos, aslist) ==
    IF pos > Len(f) THEN [v |-> aslist, pos |-> pos]
    ELSE IF f[pos] = "\"" THEN LocalWord(f, aslist, getquote(f, pos), TRUE)
    ELSE IF f[pos] \in AtomEnds THEN [v |-> PopBlank(aslist), pos |-> pos]
    ELSE LocalWord(f, aslist, getatom(f, pos), FALSE)

\* getaddrspec behind the @: the domain, the empty string without one
AddrSpecDomain(local, d) ==
    IF ~d.ok \/ d.v = << >> THEN [v |-> << >>, pos |-> d.pos]
    ELSE [v |-> Flatten(local.v) \o <<"@">> \o d.v, pos |-> d.pos]

\* getaddrspec behind the local part
AddrSpecAt(f, local) ==
    IF local.pos > Len(f) \/ f[local.pos] # "@"
    THEN [v |-> Flatten(local.v), pos |-> local.pos]
    ELSE AddrSpecDomain(local, getdomain(f, gotonext(f, local.pos + 1).pos))

getaddrspec(f, pos) == AddrSpecAt(f, LocalPart(f, gotonext(f, pos).pos, << >>))

\* the loop of getrouteaddr
RECURSIVE RouteLoop(_, _, _)
RouteLoop(f, pos, expectroute) ==
    IF pos > Len(f) THEN [v |-> << >>, pos |-> pos]
    ELSE IF expectroute
    THEN RouteLoop(f, gotonext(f, getdomain(f, pos).pos).pos, FALSE)
    ELSE IF f[pos] = ">" THEN [v |-> << >>, pos |-> pos + 1]
    ELSE IF f[pos] = "@" THEN RouteLoop(f, gotonext(f, pos + 1).pos, TRUE)
    ELSE [getaddrspec(f, pos) EXCEPT !.pos = @ + 1]

getrouteaddr(f, pos) == RouteLoop(f, gotonext(f, pos + 1).pos, FALSE)

\* returnlist = [(name, addr)] of a parsed address
OnePair(name, parsed) == [v |-> <<[name |-> name, addr |-> parsed.v]>>, pos |-> parsed.pos]

\* getaddress behind the phrase list and the white space after it
AddressAt(f, oldpos, plist, pos) ==
    IF pos > Len(f)
    THEN [v |-> (IF plist # << >> THEN <<[name |-> << >>, addr |-> plist[1]]>> ELSE << >>),
          pos |-> pos]
    ELSE IF f[pos] = "@" THEN OnePair(<< >>, getaddrspec(f, oldpos))
    ELSE IF f[pos] = "<" THEN OnePair(Join(<<" ">>, plist), getrouteaddr(f, pos))
    ELSE IF plist # << >>
    THEN [v |-> <<[name |-> << >>, addr |-> plist[1]]>>, pos |-> pos]
    ELSE [v |-> << >>, pos |-> IF f[pos] \in Specials THEN pos + 1 ELSE pos]

\* "plist = self.getphraselist(); self.gotonext()"
AfterPhrase(f, oldpos, pl) == AddressAt(f, oldpos, pl.v, gotonext(f, pl.pos).pos)

\* getaddress up to its trailing gotonext
AddressBody(f, oldpos) == AfterPhrase(f, oldpos, getphraselist(f, oldpos))

\* "if self.pos < len(self.field) and self.field[self.pos] == ',': self.pos += 1"
SkipComma(f, pos) == IF pos <= Len(f) /\ f[pos] = "," THEN pos + 1 ELSE pos

\* "self.gotonext()" and the comma behind an address
AddressEnd(f, b) == [b EXCEPT !.pos = SkipComma(f, gotonext(f, b.pos).pos)]

getaddress(f, pos) == AddressEnd(f, AddressBody(f, gotonext(f, pos).pos))

RECURSIVE getaddrlist(_, _)

\* "if ad: result += ad else: result.append(('', ''))", and the loop goes on
AddrListRest(f, ad) ==
    (IF ad.v # << >> THEN ad.v ELSE <<[name |-> << >>, addr |-> << >>]>>)
    \o getaddrlist(f, ad.pos)

getaddrlist(f, pos) == IF pos > Len(f) THEN << >> ELSE AddrListRest(f, getaddress(f, pos))

getaddresses(field) == IF field = << >> THEN << >> ELSE getaddrlist(field, 1)

-----------------------------------------------------------------------------
(* eml_semantic_gate.py: _norm_addr *)

\* mutant: the display name is kept as parsed
NormName_Verbatim(name) == name

\* name = " ".join((name or "").split())
NormName(name) == Join(<<" ">>, Split(name))

\* the entry of one (name, addr) pair, none when the address is empty
FormatEntry(name, addr) ==
    IF name # << >> /\ addr # << >> THEN << name \o <<" ", "<">> \o addr \o <<">">> >>
    ELSE IF addr # << >> THEN << addr >>
    ELSE << >>

AddrEntry(pair) == FormatEntry(NormName(pair.name), Join(<<" ">>, Split(pair.addr)))

RECURSIVE AddrEntries(_)
AddrEntries(pairs) ==
    IF pairs = << >> THEN << >> ELSE AddrEntry(Head(pairs)) \o AddrEntries(Tail(pairs))

_norm_addr(value) ==
    Join(<<",", " ">>, AddrEntries(getaddresses(IF value = NoneStr THEN << >> ELSE value)))

-----------------------------------------------------------------------------
(* Inputs of _norm_addr: address lists written with more or less white
   space *)

\* the most entries of an address list
MaxEntries == 2

AddrA == <<"a", "@", "x">>
AddrB == <<"b", "@", "x">>

\* an entry: a bare address, an address in angle brackets, a name and an
\* address, a quoted name and an address
EntryForms ==
    {[kind |-> "bare", words |-> << >>, addr |-> AddrA],
     [kind |-> "angle", words |-> << >>, addr |-> AddrB],
     [kind |-> "named", words |-> << <<"A">> >>, addr |-> AddrA],
     [kind |-> "named", words |-> << <<"A">>, <<"B">> >>, addr |-> AddrB],
     [kind |-> "quoted", words |-> << <<"B">>, <<"A">> >>, addr |-> AddrA]}

RECURSIVE EntryLists(_)
EntryLists(n) ==
    IF n = 0 THEN {<< >>}
    ELSE EntryLists(n - 1)
         \cup {<<e>> \o l : e \in EntryForms, l \in {m \in EntryLists(n - 1) : Len(m) = n - 1}}

\* the white space written where the entry allows it
Pads == {<<" ">>, <<" ", " ">>, <<"\t">>, <<"\n">>, <<" ", "\n", "\t">>}

\* the places where white space may be written
PadPlaces == {"outer", "words", "name", "angle", "comma", "quote"}

PadAt(style, place) == IF place \in style.places THEN style.pad ELSE << >>

\* between two words of a name there is at least one space
Gap(style) == <<" ">> \o PadAt(style, "words")

RenderWords(words, style) == Join(Gap(style), words)

RenderAngle(addr, style) ==
    <<"<">> \o PadAt(style, "angle") \o addr \o PadAt(style, "angle") \o <<">">>

RenderEntry(e, style) ==
    CASE e.kind = "bare" -> e.addr
      [] e.kind = "angle" -> RenderAngle(e.addr, style)
      [] e.kind = "named" ->
            RenderWords(e.words, style) \o <<" ">> \o PadAt(style, "name")
            \o RenderAngle(e.addr, style)
      [] e.kind = "quoted" ->
            <<"\"">> \o PadAt(style, "quote") \o RenderWords(e.words, style)
            \o PadAt(style, "quote") \o <<"\"">> \o PadAt(style, "name")
            \o RenderAngle(e.addr, style)

RECURSIVE RenderEntries(_, _)
RenderEntries(es, style) ==
    IF es = << >> THEN << >>
    ELSE IF Len(es) = 1 THEN RenderEntry(es[1], style)
    ELSE RenderEntry(es[1], style) \o PadAt(style, "comma") \o <<",">>
         \o PadAt(style, "comma") \o RenderEntries(Tail(es), style)

\* the header value
Render(es, style) ==
    PadAt(style, "outer") \o RenderEntries(es, style) \o PadAt(style, "outer")

Reverse(es) == [i \in 1..Len(es) |-> es[Len(es) + 1 - i]]

InitAddr ==
    /\ pc = "call"
    /\ Idle
    /\ \E es \in EntryLists(MaxEntries) \ {<< >>}, pad \in Pads, places \in SUBSET PadPlaces :
           arg = [entries |-> es, style |-> [pad |-> pad, places |-> places],
                  value |-> Render(es, [pad |-> pad, places |-> places]), prev |-> << >>]
    /\ ret = NoArg

\* _norm_addr(a.get(field) or "")
NormAddr ==
    /\ pc = "call"
    /\ ret' = _norm_addr(arg.value)
    /\ pc' = "returned"
    /\ UNCHANGED <<files, opts, arg, policy, stdout, rcs, parsers, diff, failures, banner, exit>>

\* _norm_addr on the same entries in the opposite order
NormAddrReordered ==
    /\ pc = "returned"
    /\ arg' = [arg EXCEPT !.entries = Reverse(arg.entries),
                          !.value = Render(Reverse(arg.entries), arg.style),
                          !.prev = ret]
    /\ ret' = _norm_addr(Render(Reverse(arg.entries), arg.style))
    /\ pc' = "reordered"
    /\ UNCHANGED <<files, opts, policy, stdout, rcs, parsers, diff, failures, banner, exit>>

NextAddr == NormAddr \/ NormAddrReordered

SpecAddr == InitAddr /\ [][NextAddr]_vars

\* "Name <address>", or the bare address when there is no name
CanonicalEntry(e) ==
    IF e.words = << >> THEN e.addr
    ELSE Join(<<" ">>, e.words) \o <<" ", "<">> \o e.addr \o <<">">>

CanonicalList(es) == Join(<<",", " ">>, [i \in 1..Len(es) |-> CanonicalEntry(es[i])])

Recipient(e) == [name |-> e.words, addr |-> e.addr]

-----------------------------------------------------------------------------
(* pst_semantic_gate.py: the PST fixture gate *)

\* the most distinct codes of a file that is no known fixture
CodeLimit == 20

\* [c for c in payload.split(",") if c]
DecodeCodes(payload) == SelectSeq(payload, LAMBDA c : c # "")

\* collect, one line: a ROW line of at least 6 parts sets the row of its file
DecodePstLine(rows, line) ==
    IF line.nparts >= 6 /\ line.tag = "ROW"
    THEN PutRow(rows, line.file,
             [status |-> line.status, codes |-> DecodeCodes(line.payload)])
    ELSE rows

RECURSIVE DecodePst(_, _)
DecodePst(rows, lines) ==
    IF lines = << >> THEN rows
    ELSE DecodePst(DecodePstLine(rows, Head(lines)), Tail(lines))

\* set(row["codes"])
CodeSet(codes) == {codes[i] : i \in 1..Len(codes)}

\* mutant: the generic bound counts the listed codes, repeated ones included
TooManyCodes_Listed(codes) == Len(codes) > CodeLimit

\* len(codes) > 20
TooManyCodes(codes) == Cardinality(CodeSet(codes)) > CodeLimit

RequiredCodes == {"pst_index_parse_failed", "pst_descriptor_parse_failed"}

PstFailure(f, msg) == << [file |-> f, message |-> msg] >>

\* the body of "for f in files": the entries one file adds
PstFileFailures(f, rows) ==
    IF f \notin DOMAIN rows THEN PstFailure(f, "missing output row")
    ELSE IF rows[f].status # "ok" THEN PstFailure(f, "parser returned error")
    ELSE IF Basename(f) = "minimal_pst97.pst"
    THEN (IF CodeSet(rows[f].codes) # {}
          THEN PstFailure(f, "expected clean parse, got warning codes") ELSE << >>)
    ELSE IF Basename(f) = "corrupt_offsets_pst97.pst"
    THEN (IF CodeSet(rows[f].codes) \cap RequiredCodes = {}
          THEN PstFailure(f, "expected parse-failed warning code") ELSE << >>)
    ELSE IF Basename(f) = "loop_branch_index_pst97.pst"
    THEN (IF "pst_branch_loop_detected" \notin CodeSet(rows[f].codes)
          THEN PstFailure(f, "expected pst_branch_loop_detected") ELSE << >>)
    ELSE (IF TooManyCodes(rows[f].codes)
          THEN PstFailure(f, "excessive warning cardinality") ELSE << >>)

RECURSIVE PstFailures(_, _)
PstFailures(fs, rows) ==
    IF fs = << >> THEN << >>
    ELSE PstFileFailures(Head(fs), rows) \o PstFailures(Tail(fs), rows)

PstGateStatus(fl) == IF fl # << >> THEN 2 ELSE 0

PstGateBanner(fl) ==
    IF fl # << >> THEN "PST SEMANTIC GATE FAILED" ELSE "PST semantic gate passed."

-----------------------------------------------------------------------------
(* Inputs of the PST gate *)

PstFiles ==
    {"/p/minimal_pst97.pst", "/p/corrupt_offsets_pst97.pst",
     "/p/loop_branch_index_pst97.pst", "/p/archive.pst"}

PstFile2 == "/q/minimal_pst97.pst"

NamedCodes ==
    <<"pst_index_parse_failed", "pst_descriptor_parse_failed",
      "pst_branch_loop_detected", "pst_block_truncated">>

\* n further codes, all distinct
GenericCodes(n) == [i \in 1..n |-> ToString(i)]

GenericCounts == {0, CodeLimit - 4, CodeLimit - 3, CodeLimit, CodeLimit + 1}

\* the code lists an oracle row carries: named codes, further codes, and
\* possibly an empty item and a repeated code
Payloads ==
    {SelectSeq(NamedCodes, LAMBDA c : c \in named) \o GenericCodes(n) \o tail :
        named \in SUBSET CodeSet(NamedCodes), n \in GenericCounts,
        tail \in {<< >>, <<"">>, <<"pst_block_truncated">>}}

PstLine(f, status, nparts, payload) ==
    [tag |-> "ROW", nparts |-> nparts, file |-> f, status |-> status, payload |-> payload]

\* what the oracle writes for the first file: a row, a short row, or nothing
PstOutputs1(f) ==
    {<<PstLine(f, st, 6, pl)>> : st \in {"ok", "error"}, pl \in Payloads}
    \cup {<<PstLine(f, "ok", 5, << >>)>>, << >>}

PstOutputs2 ==
    {<<PstLine(PstFile2, "ok", 6, << >>)>>, <<PstLine(PstFile2, "ok", 6, <<"pst_block_truncated">>)>>,
     << >>}

InitPst ==
    /\ pc = "start"
    /\ \E f \in PstFiles : files = <<f, PstFile2>>
    /\ opts = NoOpts
    /\ policy = << >>
    /\ stdout = << >>
    /\ rcs = << >>
    /\ parsers = << >>
    /\ diff = << >>
    /\ failures = << >>
    /\ banner = ""
    /\ exit = NoExit
    /\ arg = NoArg
    /\ ret = NoArg

\* rows = collect(files, args.elixir_root)
CollectPst ==
    /\ pc = "start"
    /\ \E rc \in ExitCodes :
          IF RunRaises(rc) THEN Abort("outlook_msg", rc)
          ELSE \E o1 \in PstOutputs1(files[1]), o2 \in PstOutputs2 :
                  /\ rcs' = rcs @@ ("outlook_msg" :> rc)
                  /\ stdout' = stdout @@ ("outlook_msg" :> o1 \o o2)
                  /\ parsers' = <<[name |-> "outlook_msg", data |-> DecodePst(NoRows, o1 \o o2)]>>
                  /\ pc' = "collected"
                  /\ UNCHANGED <<files, opts, arg, ret, policy, diff, failures, banner, exit>>

\* the loop over the files, the verdict and the return of main
EvaluatePst ==
    /\ pc = "collected"
    /\ failures' = PstFailures(files, parsers[1].data)
    /\ banner' = PstGateBanner(failures')
    /\ exit' = PstGateStatus(failures')
    /\ pc' = "done"
    /\ UNCHANGED <<files, opts, arg, ret, policy, stdout, rcs, parsers, diff>>

NextPst == CollectPst \/ EvaluatePst

SpecPst == InitPst /\ [][NextPst]_vars

-----------------------------------------------------------------------------
(* Properties of the PST gate *)

PstRows == parsers[1].data

PstEntries(f) == {i \in 1..Len(failures) : failures[i].file = f}

PstPasses(f) == PstEntries(f) = {}

PstCodes(f) == CodeSet(PstRows[f].codes)

\* what the fixture of that basename has to show
FixtureOk(f) ==
    CASE Basename(f) = "minimal_pst97.pst" -> PstCodes(f) = {}
      [] Basename(f) = "corrupt_offsets_pst97.pst" ->
            \/ "pst_index_parse_failed" \in PstCodes(f)
            \/ "pst_descriptor_parse_failed" \in PstCodes(f)
      [] Basename(f) = "loop_branch_index_pst97.pst" ->
            "pst_branch_loop_detected" \in PstCodes(f)
      [] OTHER -> Cardinality(PstCodes(f)) <= 20

\* C14: a file whose row is missing or not ok fails; a file with an ok row
\* passes exactly when the check of its basename is met; the cyclic fixture
\* without its code fails with a message naming pst_branch_loop_detected;
\* the gate exits 2 when some file fails and 0 otherwise
C14_FixtureChecks ==
    pc = "done" =>
        /\ \A f \in RequestedFiles :
               /\ (f \notin DOMAIN PstRows \/ PstRows[f].status # "ok") => ~PstPasses(f)
               /\ (f \in DOMAIN PstRows /\ PstRows[f].status = "ok") =>
                      /\ PstPasses(f) <=> FixtureOk(f)
                      /\ (Basename(f) = "loop_branch_index_pst97.pst" /\ PstCodes(f) = {}) =>
                             \E i \in PstEntries(f) :
                                 failures[i].message = "expected pst_branch_loop_detected"
               /\ Cardinality(PstEntries(f)) <= 1
        /\ exit = (IF \A f \in RequestedFiles : PstPasses(f) THEN 0 ELSE 2)
        /\ banner = (IF exit = 0 THEN "PST semantic gate passed." ELSE "PST SEMANTIC GATE FAILED")

\* a file that is no fixture with 21 listed codes of which 20 are distinct
\* passes, next to a clean minimal fixture
C14_Witness ==
    /\ pc = "done"
    /\ files[1] = "/p/archive.pst"
    /\ files[1] \in DOMAIN PstRows
    /\ PstRows[files[1]].status = "ok"
    /\ Len(PstRows[files[1]].codes) = 21
    /\ Cardinality(PstCodes(files[1])) = 20
    /\ PstPasses(files[1])
    /\ PstFile2 \in DOMAIN PstRows
    /\ PstCodes(PstFile2) = {}
    /\ exit = 0

-----------------------------------------------------------------------------
(* Free-text fields from the oracle output to the deviation set: the text of
   a field is the sequence of its characters *)

\* the longest text an oracle reports for a field
TextLen == 3

TextV(text) == [t |-> "str", s |-> text, n |-> 0]

\* the free-text fields whose text is varied
TextFields == {"subject", "to"}

\* a success record with the given subject and to
TextRow(parser, f, subject, to) ==
    [SuccessRow(parser, f, Cat0, 1000, 0) EXCEPT !["subject"] = TextV(subject),
                                                  !["to"] = TextV(to)]

\* parse_extract_msg stores _norm(getattr(msg, ...)) of each free-text field
ExtractRow(f, subject, to) == TextRow("extract-msg", f, _norm(subject), _norm(to))

\* the texts a baseline reports, and the texts a candidate reports
BaseTexts == {<<"a">>, <<"a", " ", "a">>}
CandidateTexts == Strings(TextLen)

InitText ==
    /\ pc = "start"
    /\ files = <<DiffFile1>>
    /\ opts = NoOpts
    /\ \E b \in {"ruby-msg", "outlook_msg"} : policy = DefaultPolicy(b)
    /\ stdout = << >>
    /\ rcs = << >>
    /\ parsers = << >>
    /\ diff = << >>
    /\ failures = << >>
    /\ banner = ""
    /\ exit = NoExit
    /\ arg = NoArg
    /\ ret = NoArg

\* parse_ruby, parse_elixir and parse_extract_msg on one file: the rows of
\* the two oracle processes are stored as decoded, the in-process adapter
\* normalizes what it stores
StoreText ==
    /\ pc = "start"
    /\ \E tb \in BaseTexts, tc \in CandidateTexts, field \in TextFields :
          LET sb == IF field = "subject" THEN tb ELSE <<"a">>
              sc == IF field = "subject" THEN tc ELSE <<"a">>
              ob == IF field = "to" THEN tb ELSE <<"a">>
              oc == IF field = "to" THEN tc ELSE <<"a">>
              tbase == policy.baseline_parser = "ruby-msg"
              jl == <<[kind |-> "json",
                       row |-> TextRow("ruby-msg", DiffFile1,
                                       IF tbase THEN sb ELSE sc, IF tbase THEN ob ELSE oc)]>>
              el == <<[tag |-> "ROW", nparts |-> 17, file |-> DiffFile1,
                       row |-> TextRow("outlook_msg", DiffFile1,
                                       IF tbase THEN sc ELSE sb, IF tbase THEN oc ELSE ob)]>>
          IN  /\ rcs' = ("ruby-msg" :> 0) @@ ("outlook_msg" :> 0)
              /\ stdout' = ("ruby-msg" :> jl) @@ ("outlook_msg" :> el)
              /\ parsers' = <<[name |-> "ruby-msg", data |-> DecodeJson(NoRows, jl)],
                              [name |-> "outlook_msg", data |-> DecodeElixir(NoRows, el)],
                              [name |-> "extract-msg",
                               data |-> PutRow(NoRows, DiffFile1, ExtractRow(DiffFile1, sc, oc))]>>
    /\ pc' = "diff"
    /\ UNCHANGED <<files, opts, arg, ret, policy, diff, failures, banner, exit>>

NextText == StoreText \/ Diff

SpecText == InitText /\ [][NextText]_vars

\* C15: a baseline value and a candidate value of a free-text field that are
\* equal after text normalization produce no issue for that field
C15_NormalizedEqualNoIssue ==
    pc = "diffed" =>
        \A pr \in DiffPairs :
            BothSuccess(pr[1], pr[2]) =>
                \A field \in TextFields :
                    _norm(RecordOf(policy.baseline_parser, pr[1])[field].s)
                        = _norm(RecordOf(pr[2], pr[1])[field].s)
                    => CountIssues(pr[1], pr[2], field) = 0

-----------------------------------------------------------------------------
(* Decoding line by line: parse_ruby, parse_elixir and collect_warnings on
   the output of an oracle that exited with status zero.  A line whose
   content cannot be decoded carries the exception its decoding raises. *)

Fault(line) == IF "fault" \in DOMAIN line THEN line.fault ELSE ""

\* json.loads(line) and row["file"] on a line that starts with "{"
JsonLineRaises(line) == line.kind = "json" /\ Fault(line) # ""

\* b64decode and int on the parts of a ROW line, b64decode on an ERR line
ElixirLineRaises(line) ==
    /\ \/ line.tag = "ROW" /\ line.nparts >= 17
       \/ line.tag = "ERR" /\ line.nparts >= 3
    /\ Fault(line) # ""

\* b64decode on the parts of a WARN line and of an ERR line
WarningLineRaises(line) ==
    /\ \/ line.tag = "WARN" /\ line.nparts >= 7
       \/ line.tag = "ERR" /\ line.nparts >= 3
    /\ Fault(line) # ""

Adapters == {"parse_ruby", "parse_elixir", "collect_warnings"}

LineRaises(adapter, line) ==
    CASE adapter = "parse_ruby" -> JsonLineRaises(line)
      [] adapter = "parse_elixir" -> ElixirLineRaises(line)
      [] adapter = "collect_warnings" -> WarningLineRaises(line)

DecodeLineOf(adapter, rows, line) ==
    CASE adapter = "parse_ruby" -> DecodeJsonLine(rows, line)
      [] adapter = "parse_elixir" -> DecodeElixirLine(rows, line)
      [] adapter = "collect_warnings" -> DecodeWarningLine(rows, line)

\* the result set before the first line
FirstRows(adapter, fs) == IF adapter = "collect_warnings" THEN EmptyWarnings(fs) ELSE NoRows

\* the most lines of an oracle output
MaxLines == 3

DecFile1 == "/m/a.msg"
DecFile2 == "/m/b.msg"

RubyLineSamples ==
    JsonLines("ruby-msg", DecFile1)
    \cup {[kind |-> "json",
           row |-> SuccessRow("ruby-msg", DecFile1, [Cat0 EXCEPT !["subject"] = 1], 1000, 0)],
          [kind |-> "json", row |-> SuccessRow("ruby-msg", DecFile2, Cat0, 1000, 0)],
          [kind |-> "json", row |-> EmptyDict, fault |-> "JSONDecodeError"],
          [kind |-> "json", row |-> [parser |-> StrV("ruby-msg")], fault |-> "KeyError"]}

ElixirLineSamples ==
    ElixirLines(DecFile1)
    \cup {[tag |-> "ROW", nparts |-> 17, file |-> DecFile2,
           row |-> SuccessRow("outlook_msg", DecFile2, Cat0, 1000, 0)],
          [tag |-> "ROW", nparts |-> 17, file |-> DecFile1, row |-> EmptyDict,
           fault |-> "ValueError"],
          [tag |-> "ERR", nparts |-> 3, file |-> DecFile1, row |-> EmptyDict,
           fault |-> "binascii.Error"]}

WarningLineSamples ==
    {WarnLine(DecFile1, "known_quirk", "warn", "true"),
     WarnLine(DecFile2, "other_code", "error", "false"),
     OtherLine("OK", 2, DecFile1),
     OtherLine("ERR", 3, DecFile1),
     OtherLine("Compiling", 1, ""),
     [WarnLine(DecFile1, "known_quirk", "warn", "true") EXCEPT !.nparts = 3],
     [tag |-> "WARN", nparts |-> 7, file |-> DecFile1, code |-> "", sev |-> "", rec |-> "",
      msg |-> "", fault |-> "binascii.Error"]}

LineSamples(adapter) ==
    CASE adapter = "parse_ruby" -> RubyLineSamples
      [] adapter = "parse_elixir" -> ElixirLineSamples
      [] adapter = "collect_warnings" -> WarningLineSamples

RECURSIVE LineSeqs(_, _)
LineSeqs(adapter, n) ==
    IF n = 0 THEN {<< >>}
    ELSE LineSeqs(adapter, n - 1)
         \cup {Append(sq, l) : l \in LineSamples(adapter),
                               sq \in {m \in LineSeqs(adapter, n - 1) : Len(m) = n - 1}}

\* the adapter has the output of its oracle and starts the loop over
\* out.splitlines()
InitDecode ==
    /\ pc = "decoding"
    /\ files = <<DecFile1, DecFile2>>
    /\ opts = NoOpts
    /\ policy = << >>
    /\ \E a \in Adapters :
        \E out \in LineSeqs(a, MaxLines) :
          /\ arg = [adapter |-> a, pos |-> 1]
          /\ stdout = (a :> out)
          /\ rcs = (a :> 0)
          /\ parsers = <<[name |-> a, data |-> FirstRows(a, files)]>>
    /\ ret = NoArg
    /\ diff = << >>
    /\ failures = << >>
    /\ banner = ""
    /\ exit = NoExit

\* one pass of the loop: the line is decoded into the result set, or its
\* decoding raises and the exception ends the tool
DecodeLine ==
    /\ pc = "decoding"
    /\ arg.pos <= Len(stdout[arg.adapter])
    /\ LET line == stdout[arg.adapter][arg.pos]
       IN  IF LineRaises(arg.adapter, line)
           THEN /\ pc' = "aborted"
                /\ exit' = 1
                /\ UNCHANGED <<arg, ret, parsers>>
           ELSE /\ parsers' = <<[name |-> arg.adapter,
                                 data |-> DecodeLineOf(arg.adapter, parsers[1].data, line)]>>
                /\ ret' = parsers[1].data
                /\ arg' = [arg EXCEPT !.pos = arg.pos + 1]
                /\ UNCHANGED <<pc, exit>>
    /\ UNCHANGED <<files, opts, policy, stdout, rcs, diff, failures, banner>>

\* return results
DecodeReturn ==
    /\ pc = "decoding"
    /\ arg.pos > Len(stdout[arg.adapter])
    /\ pc' = "decoded"
    /\ UNCHANGED <<files, opts, arg, ret, policy, stdout, rcs, parsers, diff, failures, banner, exit>>

NextDecode == DecodeLine \/ DecodeReturn

SpecDecode == InitDecode /\ [][NextDecode]_vars

\* the line starts with a marker the adapter recognizes
Recognized(adapter, line) ==
    CASE adapter = "parse_ruby" -> line.kind = "json"
      [] adapter = "parse_elixir" -> line.tag \in {"ROW", "ERR"}
      [] adapter = "collect_warnings" -> line.tag \in {"WARN", "ERR", "OK"}

\* the fewest parts of a row with that marker
MinParts(line) ==
    CASE line.tag = "ROW" -> 17
      [] line.tag = "WARN" -> 7
      [] line.tag = "ERR" -> 3
      [] line.tag = "OK" -> 2
      [] OTHER -> 0

TooShort(adapter, line) == adapter # "parse_ruby" /\ line.nparts < MinParts(line)

LineFile(adapter, line) == IF adapter = "parse_ruby" THEN line.row["file"].s ELSE line.file

\* what the line decoded last did to the result set: a line without a
\* recognized marker and a row with too few parts left it as it was, every
\* other line set the record of its file and left every other record alone
LineEffectOk ==
    (pc \in {"decoding", "decoded"} /\ arg.pos > 1) =>
        LET line == stdout[arg.adapter][arg.pos - 1]
            before == ret
            after == parsers[1].data
        IN  IF ~Recognized(arg.adapter, line) \/ TooShort(arg.adapter, line)
            THEN after = before
            ELSE /\ LineFile(arg.adapter, line) \in DOMAIN after
                 /\ DOMAIN after = DOMAIN before \cup {LineFile(arg.adapter, line)}
                 /\ \A g \in DOMAIN before :
                        g # LineFile(arg.adapter, line) => after[g] = before[g]

\* C16: for every sequence of output lines decoding ends without raising an
\* error; a line without a recognized marker and a row with too few parts
\* add and change no record; every other line adds or replaces exactly the
\* record of its file
C16_DecodingTolerant == pc # "aborted" /\ LineEffectOk

-----------------------------------------------------------------------------
(* The tolerance bands as functions of the baseline length *)

\* semantic_gate._body_tol: max(128, int(baseline_len * 0.02))
_body_tol(baseline_len) == Max(128, IntPct(baseline_len, 2))

\* semantic_gate._html_tol: max(4096, int(baseline_len * 0.05))
_html_tol(baseline_len) == Max(4096, IntPct(baseline_len, 5))

\* mutant: the floor is subtracted from the percentage above the edge
eml_body_tol_FloorSubtracted(expected_len) ==
    IF IntPct(expected_len, 20) > 64 THEN IntPct(expected_len, 20) - 64 ELSE 64

\* eml_semantic_gate._body_tol: max(64, int(expected_len * 0.2))
eml_body_tol(expected_len) == Max(64, IntPct(expected_len, 20))

TolFunctions ==
    {"semantic_gate._body_tol", "semantic_gate._html_tol", "eml_semantic_gate._body_tol",
     "baseline_diff.body_len", "baseline_diff.html_len"}

ApplyTol(fn, b) ==
    CASE fn = "semantic_gate._body_tol" -> _body_tol(b)
      [] fn = "semantic_gate._html_tol" -> _html_tol(b)
      [] fn = "eml_semantic_gate._body_tol" -> eml_body_tol(b)
      [] fn = "baseline_diff.body_len" -> BodyTol(IntV(b))
      [] fn = "baseline_diff.html_len" -> HtmlTol(IntV(b))

\* how far around the edge of each band the baseline lengths reach
TolSpread == 20

\* the baseline lengths: around zero, around the edge of each band (where
\* the percentage overtakes the floor), and three large ones
TolBases ==
    (0..TolSpread)
    \cup ((320 - TolSpread)..(320 + TolSpread))
    \cup ((6400 - TolSpread)..(6400 + 2 * TolSpread + 10))
    \cup ((81920 - TolSpread)..(81920 + TolSpread))
    \cup {1000000, 1000049, 1000050}

InitTol ==
    /\ pc = "call"
    /\ Idle
    /\ \E fn \in TolFunctions, b1 \in TolBases, b2 \in TolBases :
           b1 <= b2 /\ arg = [fn |-> fn, b1 |-> b1, b2 |-> b2]
    /\ ret = NoArg

\* the tolerance of both baseline lengths
ComputeTol ==
    /\ pc = "call"
    /\ ret' = [t1 |-> ApplyTol(arg.fn, arg.b1), t2 |-> ApplyTol(arg.fn, arg.b2)]
    /\ pc' = "returned"
    /\ UNCHANGED <<files, opts, arg, policy, stdout, rcs, parsers, diff, failures, banner, exit>>

NextTol == ComputeTol

SpecTol == InitTol /\ [][NextTol]_vars

\* C17: every tolerance band is monotonic in the baseline value: for
\* b1 <= b2 the tolerance of b1 is at most the tolerance of b2
C17_TolMonotonic ==
    pc = "returned" => (arg.b1 <= arg.b2 /\ ret.t1 <= ret.t2)

\* the plain-text-mail band just below and just above its edge: the floor
\* 64 at 319, the percentage 65 at 325
C17_Witness ==
    /\ pc = "returned"
    /\ arg = [fn |-> "eml_semantic_gate._body_tol", b1 |-> 319, b2 |-> 325]
    /\ ret = [t1 |-> 64, t2 |-> 65]

-----------------------------------------------------------------------------
(* The verdict of the warning gate, checked under SpecWarning *)

\* the warning violates the policy: its code is outside a non-empty
\* allow_codes, its severity is in fail_on_severity, or it is not
\* recoverable while fail_on_non_recoverable is set
ViolatesPolicy(w) ==
    \/ policy.allow_codes # {} /\ w.code \notin policy.allow_codes
    \/ w.severity \in policy.fail_on_severity
    \/ policy.fail_on_non_recoverable /\ w.recoverable = FALSE

\* the file is within the policy: not more warnings than
\* max_warnings_per_file, and no warning that violates the policy
FileWithinPolicy(f) ==
    LET rows == WarningsOf(WarningRows, f)
    IN  /\ Len(rows) <= policy.max_warnings_per_file
        /\ \A i \in 1..Len(rows) : ~ViolatesPolicy(rows[i])

\* C20: the warning gate ends with status 0 and the passed banner iff every
\* requested file is within the policy, and with status 2 otherwise; a file
\* with exactly max_warnings_per_file warnings gets no count entry, and a
\* non-recoverable warning fails the gate under fail_on_non_recoverable
\* whatever its severity
C20_PassIffWithinPolicy ==
    pc = "done" =>
        /\ exit \in {0, 2}
        /\ exit = 0 <=> \A f \in RequestedFiles : FileWithinPolicy(f)
        /\ exit = 0 <=> banner = "Warning policy gate passed."
        /\ \A f \in RequestedFiles :
               Len(WarningsOf(WarningRows, f)) = policy.max_warnings_per_file =>
                   EntriesOf(f, "too_many") = 0
        /\ \A p \in WarningPositions :
               (policy.fail_on_non_recoverable /\ ~WarningAt(p).recoverable) => exit = 2

\* C20 witness: the first file has exactly max_warnings_per_file = 2
\* warnings, one of them of severity error and not recoverable, under a
\* policy that fails on no severity and not on non-recoverable warnings:
\* the gate passes
C20_Witness ==
    /\ pc = "done"
    /\ policy.max_warnings_per_file = 2
    /\ policy.fail_on_severity = {}
    /\ ~policy.fail_on_non_recoverable
    /\ Len(WarningsOf(WarningRows, WarnFile1)) = 2
    /\ WarningAt(<<WarnFile1, 1>>).severity = "error"
    /\ ~WarningAt(<<WarnFile1, 1>>).recoverable
    /\ exit = 0
    /\ banner = "Warning policy gate passed."

-----------------------------------------------------------------------------
(* eml_semantic_gate.py: the semantic gate of plain-text mail *)

UpperLetters ==
    << "A", "B", "C", "D", "E", "F", "G", "H", "I", "J", "K", "L", "M",
       "N", "O", "P", "Q", "R", "S", "T", "U", "V", "W", "X", "Y", "Z" >>

LowerLetters ==
    << "a", "b", "c", "d", "e", "f", "g", "h", "i", "j", "k", "l", "m",
       "n", "o", "p", "q", "r", "s", "t", "u", "v", "w", "x", "y", "z" >>

\* str.lower() on the characters of a header value
Lower(s) ==
    [i \in 1..Len(s) |->
        IF \E k \in 1..26 : UpperLetters[k] = s[i]
        THEN LowerLetters[CHOOSE k \in 1..26 : UpperLetters[k] = s[i]]
        ELSE s[i]]

\* s.split(";", 1)[0]
RECURSIVE BeforeSemi(_)
BeforeSemi(s) ==
    IF s = << >> \/ Head(s) = ";" THEN << >> ELSE <<Head(s)>> \o BeforeSemi(Tail(s))

\* mutant: the main type is compared as written
MainType_CaseSensitive(v) == Strip(BeforeSemi(v))

\* (x.get("content_type") or "").split(";", 1)[0].strip().lower()
MainType(v) == Lower(Strip(BeforeSemi(v)))

\* (row.get(field) or "") of a header text
EmlText(row, field) == IF field \in DOMAIN row THEN row[field] ELSE << >>

\* bool(row.get("multipart"))
EmlMultipart(row) == IF "multipart" \in DOMAIN row THEN row["multipart"] ELSE FALSE

\* int(row.get(field, 0))
EmlInt(row, field) == IF field \in DOMAIN row THEN row[field] ELSE 0

EmlFailure(f, kind) == [file |-> f, kind |-> kind]

\* one pass of "for field in ("from", "to", "cc")"
EmlAddrCheck(f, a, b, field) ==
    IF _norm_addr(EmlText(a, field)) # _norm_addr(EmlText(b, field))
    THEN <<EmlFailure(f, field)>>
    ELSE << >>

\* the content_type check
EmlTypeCheck(f, a, b) ==
    IF MainType(EmlText(a, "content_type")) # MainType(EmlText(b, "content_type"))
    THEN <<EmlFailure(f, "content_type")>>
    ELSE << >>

\* the body of the loop over the files: a the outlook_msg record, b the
\* Python record
EmlFileFailures(f, a, b) ==
    IF "error" \in DOMAIN a \/ "error" \in DOMAIN b THEN <<EmlFailure(f, "parse error")>>
    ELSE (IF EmlText(a, "subject") # EmlText(b, "subject")
          THEN <<EmlFailure(f, "subject")>> ELSE << >>)
         \o EmlAddrCheck(f, a, b, "from")
         \o EmlAddrCheck(f, a, b, "to")
         \o EmlAddrCheck(f, a, b, "cc")
         \o EmlTypeCheck(f, a, b)
         \o (IF EmlMultipart(a) # EmlMultipart(b)
             THEN <<EmlFailure(f, "multipart")>> ELSE << >>)
         \o (IF EmlInt(a, "parts_count") # EmlInt(b, "parts_count")
             THEN <<EmlFailure(f, "parts_count")>> ELSE << >>)
         \o (IF Abs(EmlInt(a, "body_len") - EmlInt(b, "body_len"))
                    > eml_body_tol(EmlInt(b, "body_len"))
             THEN <<EmlFailure(f, "body_len")>> ELSE << >>)

\* for f in files
RECURSIVE EmlFailures(_, _, _)
EmlFailures(fs, elx, py) ==
    IF fs = << >> THEN << >>
    ELSE EmlFileFailures(Head(fs), RowOf(elx, Head(fs)), RowOf(py, Head(fs)))
         \o EmlFailures(Tail(fs), elx, py)

EmlGateStatus(fl) == IF fl # << >> THEN 2 ELSE 0

EmlGateBanner(fl) ==
    IF fl # << >> THEN "EML SEMANTIC GATE FAILED" ELSE "EML semantic gate passed."

-----------------------------------------------------------------------------
(* Inputs of the plain-text-mail gate *)

EmlFile1 == "/m/a.eml"
EmlFile2 == "/m/b.eml"

\* primary type/subtype tokens as written in a Content-Type header
TypeTokens ==
    {<<"t", "/", "p">>, <<"T", "/", "P">>, <<"T", "/", "p">>, <<"t", "/", "h">>, << >>}

\* what follows the token: nothing, white space, parameters
TypeTails ==
    {<< >>, <<" ">>, <<";">>,
     <<";", " ", "c", "=", "u">>,
     <<" ", ";", "C", "=", "U">>,
     <<"\t", ";", "\n", " ", "c", "=", "u">>,
     <<";", "b", "=", "1", ";", "c", "=", "u">>,
     <<";", "c", "=", "u", ";", "b", "=", "1">>,
     <<";", " ", "t", "/", "h">>}

\* the header as both adapters store it: NUL removed, white space
\* collapsed, trimmed
ContentTypes == {eml_norm(tok \o tail) : tok \in TypeTokens, tail \in TypeTails}

EmlRow(subject, to, ctype, multipart, parts, blen) ==
    [subject |-> subject, from |-> AddrA, to |-> to, cc |-> << >>,
     content_type |-> ctype, multipart |-> multipart, parts_count |-> parts,
     body_len |-> blen, body_preview |-> <<"x">>]

EmlDefault(ctype) == EmlRow(<<"S">>, AddrB, ctype, FALSE, 0, 320)

EmlErrorRow == [error |-> <<"e">>]

\* <<outlook_msg record, Python record>> of the first file: two records
\* that differ in the Content-Type header at most, or a deviation in
\* another field beside it; an EmptyDict stands for no row
EmlScenarios ==
    {<<EmlDefault(ca), EmlDefault(cb)>> : ca \in ContentTypes, cb \in ContentTypes}
    \cup
    {<<ra, EmlDefault(cb)>> :
        ra \in {EmlErrorRow, EmptyDict,
                EmlRow(<<"R">>, AddrB, <<"t", "/", "p">>, FALSE, 0, 320),
                EmlRow(<<"S">>, AddrA, <<"t", "/", "p">>, FALSE, 0, 320),
                EmlRow(<<"S">>, AddrB, <<"t", "/", "p">>, TRUE, 2, 320),
                EmlRow(<<"S">>, AddrB, <<"t", "/", "p">>, FALSE, 0, 384),
                EmlRow(<<"S">>, AddrB, <<"t", "/", "p">>, FALSE, 0, 385)},
        cb \in {<<"t", "/", "p">>, <<"T", "/", "P", ";", " ", "c", "=", "u">>, <<"t", "/", "h">>}}
    \cup {<<EmlDefault(<<"t", "/", "p">>), EmlErrorRow>>}

\* the result set holding the record of the first file and, for the second
\* file, a default record or none
EmlResults(r1, second) ==
    [f \in {g \in {EmlFile1, EmlFile2} :
                (g = EmlFile1 /\ ~IsEmpty(r1)) \/ (g = EmlFile2 /\ second)} |->
        IF f = EmlFile1 THEN r1 ELSE EmlDefault(<<"t", "/", "p">>)]

InitEml ==
    /\ pc = "start"
    /\ files = <<EmlFile1, EmlFile2>>
    /\ opts = NoOpts
    /\ policy = << >>
    /\ stdout = << >>
    /\ rcs = << >>
    /\ parsers = << >>
    /\ diff = << >>
    /\ failures = << >>
    /\ banner = ""
    /\ exit = NoExit
    /\ arg = NoArg
    /\ ret = NoArg

\* elx = harness.parse_elixir(files, args.elixir_root);
\* py = harness.parse_python(files)
ParseEml ==
    /\ pc = "start"
    /\ \E rc \in ExitCodes :
          IF RunRaises(rc) THEN Abort("outlook_msg", rc)
          ELSE \E sc \in EmlScenarios, second \in BOOLEAN :
                  /\ rcs' = rcs @@ ("outlook_msg" :> rc)
                  /\ parsers' = <<[name |-> "outlook_msg", data |-> EmlResults(sc[1], second)],
                                  [name |-> "python", data |-> EmlResults(sc[2], TRUE)]>>
                  /\ pc' = "parsed"
                  /\ UNCHANGED <<files, opts, arg, ret, policy, stdout, diff, failures,
                                 banner, exit>>

\* the loop over the files, the verdict and the return of main
EvaluateEml ==
    /\ pc = "parsed"
    /\ failures' = EmlFailures(files, parsers[1].data, parsers[2].data)
    /\ banner' = EmlGateBanner(failures')
    /\ exit' = EmlGateStatus(failures')
    /\ pc' = "done"
    /\ UNCHANGED <<files, opts, arg, ret, policy, stdout, rcs, parsers, diff>>

NextEml == ParseEml \/ EvaluateEml

SpecEml == InitEml /\ [][NextEml]_vars

-----------------------------------------------------------------------------
(* The content_type comparison, checked under SpecEml *)

\* the positions of the text before the first ";"
BeforeFirstSemi(v) == {i \in 1..Len(v) : \A k \in 1..i : v[k] # ";"}

\* the positions of the primary type/subtype token: the text before the
\* first ";" without the white space at its two ends
TokenPositions(v) ==
    {i \in BeforeFirstSemi(v) :
        /\ \E k \in BeforeFirstSemi(v) : k <= i /\ v[k] \notin Whitespace
        /\ \E k \in BeforeFirstSemi(v) : k >= i /\ v[k] \notin Whitespace}

\* two characters that are equal or are the two cases of one letter
SameLetter(c, d) ==
    \/ c = d
    \/ \E k \in 1..26 : {c, d} = {UpperLetters[k], LowerLetters[k]}

\* the tokens of two header values are equal but for the case of letters
SameToken(v, w) ==
    /\ Cardinality(TokenPositions(v)) = Cardinality(TokenPositions(w))
    /\ \A i \in TokenPositions(v) :
           \E j \in TokenPositions(w) :
               /\ Cardinality({k \in TokenPositions(v) : k < i})
                      = Cardinality({k \in TokenPositions(w) : k < j})
               /\ SameLetter(v[i], w[j])

\* the two records of a file, where the gate compares them field by field
EmlCompared(f) ==
    /\ f \in DOMAIN parsers[1].data
    /\ f \in DOMAIN parsers[2].data
    /\ "error" \notin DOMAIN parsers[1].data[f]
    /\ "error" \notin DOMAIN parsers[2].data[f]

EmlEntries(f, kind) ==
    Cardinality({i \in 1..Len(failures) : failures[i].file = f /\ failures[i].kind = kind})

\* C21: the gate reports a content_type mismatch of a file iff the primary
\* type/subtype tokens of its two content_type values (the text before the
\* first ";", trimmed) differ when compared without regard to case; two
\* values that agree before the first ";" give no content_type failure,
\* whatever follows it
C21_ContentTypeMainTypeOnly ==
    pc = "done" =>
        \A i \in 1..Len(files) :
            EmlCompared(files[i]) =>
                LET va == parsers[1].data[files[i]]["content_type"]
                    vb == parsers[2].data[files[i]]["content_type"]
                IN  /\ EmlEntries(files[i], "content_type")
                           = (IF SameToken(va, vb) THEN 0 ELSE 1)
                    /\ BeforeSemi(va) = BeforeSemi(vb) =>
                           EmlEntries(files[i], "content_type") = 0

\* C21 witness: "T/P ;C=U" against "t/p;b=1;c=u" passes the gate: the
\* values differ in case, white space and parameters only
C21_Witness ==
    /\ pc = "done"
    /\ EmlCompared(EmlFile1)
    /\ parsers[1].data[EmlFile1]["content_type"] = <<"T", "/", "P", " ", ";", "C", "=", "U">>
    /\ parsers[2].data[EmlFile1]["content_type"]
           = <<"t", "/", "p", ";", "b", "=", "1", ";", "c", "=", "u">>
    /\ failures = << >>
    /\ exit = 0

-----------------------------------------------------------------------------
(* The allow decision as a function of the rule list, checked under
   SpecPolicy *)

\* the rule lists holding the same rules in another order
RuleOrders(rules) ==
    {[i \in 1..Len(rules) |-> rules[f[i]]] :
        f \in {g \in [1..Len(rules) -> 1..Len(rules)] :
                  \A i, j \in 1..Len(rules) : i # j => g[i] # g[j]}}

\* the rule list without its k-th rule
WithoutRule(rules, k) == SubSeq(rules, 1, k - 1) \o SubSeq(rules, k + 1, Len(rules))

\* the violations the gate reports for the payload under another rule list
ViolationSet(rules) ==
    LET v == Violations(diff, [policy EXCEPT !.allow_rules = rules])
    IN  {v[x] : x \in 1..Len(v)}

\* C22: the allow decision of every issue of the payload is the same for
\* every order of allow_rules; a rule list is the list without its k-th rule
\* with that rule added, and an issue allowed without the rule is allowed
\* with it, so that the violation set with the rule is a subset of the one
\* without it; no reported violation has a severity outside
\* fail_on_severity
C22_AllowOrderFreeMonotone ==
    pc = "done" =>
        LET issues == {<<PosIssue(t), PosParser(t)>> : t \in IssuePositions}
            rules == policy.allow_rules
        IN  /\ \A q \in RuleOrders(rules) :
                   \A ip \in issues : _allowed(ip[1], ip[2], q) = _allowed(ip[1], ip[2], rules)
            /\ \A k \in 1..Len(rules) :
                   /\ \A ip \in issues :
                          _allowed(ip[1], ip[2], WithoutRule(rules, k))
                              => _allowed(ip[1], ip[2], rules)
                   /\ ReportedEntries \subseteq ViolationSet(WithoutRule(rules, k))
            /\ \A x \in 1..Len(failures) : failures[x].sev \in policy.fail_on_severity
            /\ \A ip \in issues :
                   ip[1].severity \notin policy.fail_on_severity =>
                       \A x \in 1..Len(failures) : failures[x].sev # ip[1].severity

\* C22 witness: of two rules the first does not match a failing issue and
\* the second does, so the issue is allowed; another failing issue is
\* reported, and an issue of a severity that does not fail is not
C22_Witness ==
    /\ pc = "done"
    /\ Len(policy.allow_rules) = 2
    /\ policy.allow_rules[1] # policy.allow_rules[2]
    /\ \E t \in IssuePositions :
           /\ PosIssue(t).severity \in policy.fail_on_severity
           /\ ~RuleMatches(policy.allow_rules[1], PosIssue(t), PosParser(t))
           /\ RuleMatches(policy.allow_rules[2], PosIssue(t), PosParser(t))
           /\ AllowedAt(t)
    /\ \E t \in IssuePositions : PosIssue(t).severity \notin policy.fail_on_severity
    /\ failures # << >>

=============================================================================
